---- MODULE Spec2Model ----
(***************************************************************************)
(* The user-settings schema migration of sigma-file-manager:                *)
(* migrateUserSettingsStorage walks the persisted settings from the stored  *)
(* schema version to USER_SETTINGS_SCHEMA_VERSION, one migrateUserSettings- *)
(* Step at a time, over a StorageAdapter (get/set of key-paths).            *)
(*                                                                         *)
(* Strings whose characters the code inspects (keys of the positions map,   *)
(* media ids, file names, paths) are sequences of one-character strings, so *)
(* that /^\d+$/, parseInt and trim are computed character by character.     *)
(* Store key-paths are never inspected and stay TLA+ strings.               *)
(***************************************************************************)
EXTENDS Integers, Sequences, FiniteSets, TLC

VARIABLES
    store,        \* the persisted settings: key-path -> JSON value
    pc,           \* per invocation: "idle", "applyStep" or "setVersion"
    fromVersion,  \* per invocation: the driver's loop variable v
    args,         \* per invocation: the schemaVersionKey and latestSchemaVersion of the call
    seg,          \* per invocation: how many writes of the current step are behind it
    loc,          \* per invocation: the locals a step holds across its awaits
    outcome,      \* per invocation: how its last finished run ended
    log,          \* history: the events of the current (or last) run, in order
    reads,        \* history: the key-paths the current (or last) run has read
    writes,       \* history: the key-paths the current (or last) run has written
    retryOf,      \* history: the step the previous run failed in (-1: none)
    failedStep,   \* history: the step the last finished run failed in (-1: none)
    returned,     \* history: the steps whose applyStep has returned
    bumped,       \* history: the versions a setVersion has written
    applied,      \* history: the step that returned last and the store it left
    aborts,       \* history: the number of injected failures so far
    lastCall,     \* history: the catalog operation that completed last and
                  \* the catalog it found
    homeBannerMedia, \* the builtin media manifest of the build: fixed data
                     \* (@/data/home-banner-media), never written
    walk,         \* the key-path walk of a settings schema: the schema, the
                  \* values still to visit and the paths collected
    isInitialized,       \* globalShortcuts store: ref isInitialized
    registeredShortcuts, \* globalShortcuts store: Map of shortcut id -> the
                         \* string the store holds as registered
    globalShortcuts,     \* userSettings.globalShortcuts: id -> the user's string
    osShortcuts,         \* the registrations the operating system holds
                         \* (@tauri-apps/plugin-global-shortcut)
    calls,               \* per caller: the store function it is in and the
                         \* await it is suspended at
    shortcutHistory      \* history: the runs of registerAllShortcuts since
                         \* cleanup() was called and since it returned

vars == <<store, pc, fromVersion, args, seg, loc, outcome, log, reads, writes,
          retryOf, failedStep, returned, bumped, applied, aborts, lastCall,
          homeBannerMedia, walk, isInitialized, registeredShortcuts, globalShortcuts,
          osShortcuts, calls, shortcutHistory>>

\* The state of the globalShortcuts store, of the settings it reads and of the
\* operating system's registrations
ShortcutVars ==
    <<isInitialized, registeredShortcuts, globalShortcuts, osShortcuts, calls,
      shortcutHistory>>

-----------------------------------------------------------------------------
(* Bounds of the model *)

\* Injected storage failures / crashes per behaviour.
MaxAborts == 2

\* The invocations of migrate(): one launch at a time under Spec.
Procs == {"launchA", "launchB"}
SingleWriter == {"launchA"}

-----------------------------------------------------------------------------
(* JSON values *)

Undefined == [t |-> "undefined"]
Null == [t |-> "null"]
NaN == [t |-> "number", nan |-> TRUE]
Bool(b) == [t |-> "boolean", b |-> b]
Num(n) == [t |-> "number", n |-> n]
Str(s) == [t |-> "string", s |-> s]
Arr(a) == [t |-> "array", a |-> a]
\* An object used as a map: its own properties as <<key, value>> pairs in
\* insertion order.
Obj(e) == [t |-> "object", e |-> e]

\* typeof v
TypeOf(v) == IF v.t \in {"null", "array", "object"} THEN "object" ELSE v.t

\* ToBoolean(v): what `!v` and `v &&` test
Truthy(v) ==
    CASE v.t = "undefined" -> FALSE
      [] v.t = "null" -> FALSE
      [] v.t = "boolean" -> v.b
      [] v.t = "number" -> IF "nan" \in DOMAIN v THEN FALSE ELSE v.n # 0
      [] v.t = "string" -> v.s # <<>>
      [] OTHER -> TRUE

\* v.f on a value that is neither null nor undefined
Field(v, f) == IF v.t = "object" /\ f \in DOMAIN v THEN v[f] ELSE Undefined

\* Array.isArray(v)
IsArray(v) == v.t = "array"

\* xs[i] of a JavaScript array (0-based; undefined outside it)
At(xs, i) == IF i \in 0..(Len(xs) - 1) THEN xs[i + 1] ELSE Undefined

-----------------------------------------------------------------------------
(* Strings as character sequences *)

Digits == {"0", "1", "2", "3", "4", "5", "6", "7", "8", "9"}

DigitValue(c) ==
    CASE c = "0" -> 0 [] c = "1" -> 1 [] c = "2" -> 2 [] c = "3" -> 3
      [] c = "4" -> 4 [] c = "5" -> 5 [] c = "6" -> 6 [] c = "7" -> 7
      [] c = "8" -> 8 [] c = "9" -> 9

DigitChar(d) ==
    CASE d = 0 -> "0" [] d = 1 -> "1" [] d = 2 -> "2" [] d = 3 -> "3"
      [] d = 4 -> "4" [] d = 5 -> "5" [] d = 6 -> "6" [] d = 7 -> "7"
      [] d = 8 -> "8" [] d = 9 -> "9"

\* /^\d+$/.test(key)
RegexDigits(key) == Len(key) > 0 /\ \A i \in 1..Len(key) : key[i] \in Digits

RECURSIVE DropLeadingSpaces(_)
DropLeadingSpaces(s) ==
    IF s # <<>> /\ s[1] = " " THEN DropLeadingSpaces(Tail(s)) ELSE s

RECURSIVE DropTrailingSpaces(_)
DropTrailingSpaces(s) ==
    IF s # <<>> /\ s[Len(s)] = " "
    THEN DropTrailingSpaces(SubSeq(s, 1, Len(s) - 1))
    ELSE s

\* s.trim()
Trim(s) == DropTrailingSpaces(DropLeadingSpaces(s))

\* The decimal value of the leading digits of s, given the value acc of the
\* digits already consumed.
RECURSIVE LeadingDigitsValue(_, _)
LeadingDigitsValue(s, acc) ==
    IF s # <<>> /\ s[1] \in Digits
    THEN LeadingDigitsValue(Tail(s), 10 * acc + DigitValue(s[1]))
    ELSE acc

\* parseInt(key, 10): leading white space is skipped, one sign is accepted,
\* then the longest run of digits is read; NaN when there is no digit.
parseInt(key) ==
    LET s == DropLeadingSpaces(key)
        signed == s # <<>> /\ s[1] \in {"-", "+"}
        body == IF signed THEN Tail(s) ELSE s
        magnitude == LeadingDigitsValue(body, 0)
    IN  IF body = <<>> \/ body[1] \notin Digits THEN NaN
        ELSE Num(IF signed /\ s[1] = "-" THEN 0 - magnitude ELSE magnitude)

\* Number.isNaN(v)
IsNaN(v) == v.t = "number" /\ "nan" \in DOMAIN v

RECURSIVE DecimalChars(_)
DecimalChars(n) ==
    IF n < 10 THEN <<DigitChar(n)>>
    ELSE Append(DecimalChars(n \div 10), DigitChar(n % 10))

\* ToPropertyKey(v): the key obj[v] addresses
PropertyKey(v) ==
    CASE v.t = "string" -> v.s
      [] v.t = "undefined" -> <<"u", "n", "d", "e", "f", "i", "n", "e", "d">>
      [] v.t = "null" -> <<"n", "u", "l", "l">>
      [] v.t = "boolean" ->
            IF v.b THEN <<"t", "r", "u", "e">> ELSE <<"f", "a", "l", "s", "e">>
      [] v.t = "number" ->
            IF IsNaN(v) THEN <<"N", "a", "N">>
            ELSE IF v.n < 0 THEN <<"-">> \o DecimalChars(0 - v.n)
            ELSE DecimalChars(v.n)
      [] OTHER -> <<"[", "o", "b", "j", "e", "c", "t", "]">>

-----------------------------------------------------------------------------
(* Objects used as maps *)

HasKey(e, key) == \E i \in 1..Len(e) : e[i][1] = key

Lookup(e, key) ==
    IF HasKey(e, key)
    THEN e[CHOOSE i \in 1..Len(e) : e[i][1] = key][2]
    ELSE Undefined

KeysOf(e) == {e[i][1] : i \in 1..Len(e)}

\* obj[key] = value: an existing property keeps its place
ObjSet(e, key, value) ==
    IF HasKey(e, key)
    THEN [i \in 1..Len(e) |-> IF e[i][1] = key THEN <<key, value>> ELSE e[i]]
    ELSE Append(e, <<key, value>>)

\* A key that is a canonical array index: such properties are enumerated
\* first, in ascending numeric order
IsArrayIndexKey(key) == RegexDigits(key) /\ (Len(key) = 1 \/ key[1] # "0")

RECURSIVE AscendingIndexKeys(_)
AscendingIndexKeys(e) ==
    IF e = <<>> THEN <<>>
    ELSE LET least == CHOOSE i \in 1..Len(e) :
                        \A j \in 1..Len(e) :
                            LeadingDigitsValue(e[i][1], 0) <= LeadingDigitsValue(e[j][1], 0)
             others == [j \in 1..(Len(e) - 1) |-> IF j < least THEN e[j] ELSE e[j + 1]]
         IN  <<e[least]>> \o AscendingIndexKeys(others)

IndexKeyEntry(entry) == IsArrayIndexKey(entry[1])
OtherKeyEntry(entry) == ~IsArrayIndexKey(entry[1])

\* Object.entries(obj): integer keys ascending, then the rest in insertion order
ObjectEntries(e) ==
    AscendingIndexKeys(SelectSeq(e, IndexKeyEntry)) \o SelectSeq(e, OtherKeyEntry)

-----------------------------------------------------------------------------
(* Program constants and external data *)

USER_SETTINGS_SCHEMA_VERSION_KEY == "__schemaVersion"
USER_SETTINGS_SCHEMA_VERSION == 5

\* The builtin media manifest the application ships
\* (@/data/home-banner-media), in manifest order: the value of homeBannerMedia
\* in a released build.
BuiltinManifest ==
    << [fileName |-> <<"b", "u", "i", "l", "t", "i", "n", "1", ".", "j", "p", "g">>,
        type |-> "image"],
       [fileName |-> <<"b", "u", "i", "l", "t", "i", "n", "2", ".", "j", "p", "g">>,
        type |-> "image"] >>

DEFAULT_HOME_BANNER_FILE_NAME == BuiltinManifest[2].fileName

\* crypto.randomUUID().replace(/-/g, '').slice(0, 8): eight hexadecimal
\* characters, any of which may be a digit. The outcomes the model draws from:
\* one id with letters and one made of digits only.
generateShortId ==
    { <<"a", "3", "f", "0", "9", "c", "1", "e">>,
      <<"1", "2", "3", "4", "5", "6", "7", "8">> }

infusionPageKeys ==
    << "infusion.pages.global.background", "infusion.pages.home.background",
       "infusion.pages.navigator.background", "infusion.pages.dashboard.background",
       "infusion.pages.settings.background", "infusion.pages.extensions.background" >>

StoreKeys ==
    { USER_SETTINGS_SCHEMA_VERSION_KEY,
      "navigator.useSystemIcons",
      "navigator.useSystemIconsForDirectories",
      "navigator.useSystemIconsForFiles",
      "homeBannerCustomMedia", "homeBannerPositions",
      "homeBannerMediaId", "homeBannerIndex" }
    \cup {infusionPageKeys[i] : i \in 1..Len(infusionPageKeys)}

\* storage.set(key, value)
StorageSet(s, key, value) == [s EXCEPT ![key] = value]

\* A HomeBannerCustomMediaItem {path, id}
CustomItem(path, id) == [t |-> "object", path |-> path, id |-> id]

\* A HomeBannerPosition {positionX, positionY, zoom}
Position(x, y, z) == [t |-> "object", positionX |-> x, positionY |-> y, zoom |-> z]

\* An infusion background descriptor {type, path, index, mediaId}
Background(type, path, index, mediaId) ==
    [t |-> "object", type |-> type, path |-> path, index |-> index, mediaId |-> mediaId]

-----------------------------------------------------------------------------
(* migrateUserSettingsStep: what each step computes between two writes *)

\* 1 -> 2: the legacy boolean, and whether each destination is already set
oldSystemIconsOf(s) ==
    IF TypeOf(s["navigator.useSystemIcons"]) = "boolean"
    THEN s["navigator.useSystemIcons"]
    ELSE Undefined

directoriesAlreadySetIn(s) ==
    TypeOf(s["navigator.useSystemIconsForDirectories"]) = "boolean"

\* Mutant: the files destination is tested under the directories key.
filesAlreadySetIn_ReadsDirectories(s) ==
    TypeOf(s["navigator.useSystemIconsForDirectories"]) = "boolean"

filesAlreadySetIn(s) ==
    TypeOf(s["navigator.useSystemIconsForFiles"]) = "boolean"

\* Mutant: the legacy test looks at the array only, not at its first element.
isLegacyFormat_AnyArray(customMediaValue) ==
    /\ IsArray(customMediaValue)
    /\ Len(customMediaValue.a) > 0

\* 2 -> 3 (a): a stored array whose first element is a string is the legacy list
isLegacyFormat(customMediaValue) ==
    /\ IsArray(customMediaValue)
    /\ Len(customMediaValue.a) > 0
    /\ TypeOf(customMediaValue.a[1]) = "string"

\* Mutant: a list that is not in the legacy format is taken to be empty.
storedCustom_Empty(customMediaValue) == SubSeq(<<>>, 1, 0)

\* 2 -> 3: migratedCustom when nothing is converted: the stored list when it
\* is an array, else []
storedCustom(customMediaValue) ==
    IF IsArray(customMediaValue) THEN customMediaValue.a ELSE <<>>

\* 2 -> 3 (a): the legacy list with one generated id per entry
convertLegacyCustom(paths, ids) ==
    [i \in 1..Len(paths) |-> CustomItem(paths[i], Str(ids[i]))]

\* 2 -> 3 (b): some key of the stored positions is a numeric index
hasNumericKeys(positionsValue) ==
    /\ Truthy(positionsValue)
    /\ TypeOf(positionsValue) = "object"
    /\ "e" \in DOMAIN positionsValue
    /\ \E key \in KeysOf(positionsValue.e) : RegexDigits(key)

validPosition(position) ==
    Position(
        IF TypeOf(Field(position, "positionX")) = "number"
            THEN Field(position, "positionX") ELSE Num(50),
        IF TypeOf(Field(position, "positionY")) = "number"
            THEN Field(position, "positionY") ELSE Num(50),
        IF TypeOf(Field(position, "zoom")) = "number"
            THEN Field(position, "zoom") ELSE Num(100))

\* 2 -> 3 (b): the loop over Object.entries(positionsValue). The result is the
\* rewritten map, or threw when migratedCustom[index].id reads a property of
\* undefined or null (a TypeError).
RECURSIVE migratePositions(_, _, _)
migratePositions(entries, migratedCustom, migratedPositions) ==
    IF entries = <<>> THEN [threw |-> FALSE, e |-> migratedPositions]
    ELSE
      LET key == entries[1][1]
          position == entries[1][2]
          rest == Tail(entries)
          index == parseInt(key)
      IN  IF ~Truthy(position) \/ TypeOf(position) # "object"
          THEN migratePositions(rest, migratedCustom, migratedPositions)
          ELSE IF IsNaN(index)
          THEN migratePositions(rest, migratedCustom,
                                ObjSet(migratedPositions, key, position))
          ELSE IF index.n < Len(migratedCustom)
          THEN LET entry == At(migratedCustom, index.n)
               IN  IF entry.t \in {"undefined", "null"}
                   THEN [threw |-> TRUE]
                   ELSE migratePositions(rest, migratedCustom,
                            ObjSet(migratedPositions,
                                   PropertyKey(Field(entry, "id")),
                                   validPosition(position)))
          ELSE LET builtinIndex == index.n - Len(migratedCustom)
               IN  IF builtinIndex >= 0 /\ builtinIndex < Len(homeBannerMedia)
                   THEN migratePositions(rest, migratedCustom,
                            ObjSet(migratedPositions,
                                   homeBannerMedia[builtinIndex + 1].fileName,
                                   validPosition(position)))
                   ELSE migratePositions(rest, migratedCustom, migratedPositions)

\* Mutant: the builtin range is addressed by the raw index, without the offset.
resolvedMediaId_NoOffset(customMediaValue, indexValue) ==
    LET customCount == IF IsArray(customMediaValue) THEN Len(customMediaValue.a) ELSE 0
        rawIndex == IF TypeOf(indexValue) = "number" /\ ~IsNaN(indexValue)
                    THEN indexValue.n ELSE 0
        totalCount == customCount + Len(homeBannerMedia)
    IN  IF totalCount > 0 /\ rawIndex >= 0 /\ rawIndex < totalCount
        THEN IF rawIndex < customCount
             THEN LET entry == At(customMediaValue.a, rawIndex)
                  IN  IF Truthy(entry) /\ TypeOf(entry) = "object"
                         /\ Truthy(Field(entry, "id"))
                      THEN Field(entry, "id")
                      ELSE Str(DEFAULT_HOME_BANNER_FILE_NAME)
             ELSE IF rawIndex < Len(homeBannerMedia)
                  THEN Str(homeBannerMedia[rawIndex + 1].fileName)
                  ELSE Str(DEFAULT_HOME_BANNER_FILE_NAME)
        ELSE Str(DEFAULT_HOME_BANNER_FILE_NAME)

\* 3 -> 4: the media id derived from the legacy index
resolvedMediaId(customMediaValue, indexValue) ==
    LET customCount == IF IsArray(customMediaValue) THEN Len(customMediaValue.a) ELSE 0
        rawIndex == IF TypeOf(indexValue) = "number" /\ ~IsNaN(indexValue)
                    THEN indexValue.n ELSE 0
        totalCount == customCount + Len(homeBannerMedia)
    IN  IF totalCount > 0 /\ rawIndex >= 0 /\ rawIndex < totalCount
        THEN IF rawIndex < customCount
             THEN LET entry == At(customMediaValue.a, rawIndex)
                  IN  IF Truthy(entry) /\ TypeOf(entry) = "object"
                         /\ Truthy(Field(entry, "id"))
                      THEN Field(entry, "id")
                      ELSE Str(DEFAULT_HOME_BANNER_FILE_NAME)
             ELSE Str(homeBannerMedia[rawIndex - customCount + 1].fileName)
        ELSE Str(DEFAULT_HOME_BANNER_FILE_NAME)

\* Mutant: the step derives the media id whatever is stored.
mediaIdIsBlank_Always(mediaIdValue) == TRUE

\* 3 -> 4: homeBannerMediaId is absent or blank
mediaIdIsBlank(mediaIdValue) ==
    \/ ~Truthy(mediaIdValue)
    \/ TypeOf(mediaIdValue) # "string"
    \/ Trim(mediaIdValue.s) = <<>>

\* 4 -> 5: the descriptor lacks a media id, carries a numeric index, and the
\* builtin manifest has an entry at that index
backgroundNeedsMediaId(background) ==
    /\ Truthy(background)
    /\ TypeOf(background) = "object"
    /\ ~Truthy(Field(background, "mediaId"))
    /\ TypeOf(Field(background, "index")) = "number"
    /\ Field(background, "index").n \in 0..(Len(homeBannerMedia) - 1)

\* Mutant: the new descriptor is built without the fields of the stored one.
migratedBackground_DropsFields(background) ==
    Background(Undefined, Undefined, Field(background, "index"),
               Str(homeBannerMedia[Field(background, "index").n + 1].fileName))

\* 4 -> 5: {...background, mediaId: media.fileName}
migratedBackground(background) ==
    [background EXCEPT
        !.mediaId = Str(homeBannerMedia[Field(background, "index").n + 1].fileName)]

-----------------------------------------------------------------------------
(* The stores a launch may find *)

PathA == <<"/", "a", ".", "j", "p", "g">>
PathB == <<"/", "b", ".", "j", "p", "g">>
StoredId == <<"c", "0", "f", "f", "e", "e", "0", "0">>

VersionInputs ==
    {Undefined, Str(<<"v", "2">>)}
    \cup {Num(n) : n \in 0..(USER_SETTINGS_SCHEMA_VERSION + 1)}

SystemIconsInputs == {Undefined, Bool(TRUE), Bool(FALSE), Str(<<"o", "n">>)}
DestinationInputs == {Undefined, Bool(FALSE)}

CustomMediaInputs ==
    { Undefined,
      Arr(<<>>),
      Arr(<<Str(PathA)>>),
      Arr(<<Str(PathA), Str(PathB)>>),
      Arr(<<CustomItem(Str(PathA), Str(StoredId))>>),
      Arr(<<Null>>),
      Str(PathA) }

FullPosition == Position(Num(10), Num(20), Num(100))
OtherPosition == Position(Num(50), Num(50), Num(100))
PartialPosition == Position(Num(30), Str(<<"4", "0">>), Undefined)

PositionsInputs ==
    { Undefined,
      Obj(<<>>),
      Obj(<< <<(<<"0">>), FullPosition>>, <<(<<"2">>), OtherPosition>> >>),
      Obj(<< <<(<<"1">>), PartialPosition>>, <<(<<"7">>), FullPosition>> >>),
      Obj(<< <<(<<"0">>), FullPosition>>, <<(<<"-", "1">>), OtherPosition>> >>),
      Obj(<< <<(<<"1", "a">>), OtherPosition>>, <<(<<"0">>), FullPosition>> >>),
      Obj(<< <<(<<"0">>), Null>>, <<(<<"1">>), FullPosition>> >>),
      Obj(<< <<(<<"a">>), Num(3)>>, <<(<<"0">>), FullPosition>>,
             <<(<<"k">>), PartialPosition>> >>),
      Obj(<< <<(<<"a">>), FullPosition>>, <<(<<"-", "1">>), Null>> >>),
      Obj(<< <<StoredId, FullPosition>> >>) }

MediaIdInputs == {Undefined, Str(<<" ">>), Str(StoredId)}

IndexInputs == {Undefined, Str(<<"1">>)} \cup {Num(n) : n \in {-1, 0, 1, 2, 7}}

BackgroundInputs ==
    { Undefined,
      Background(Str(<<"i", "m", "a", "g", "e">>), Str(<<>>), Num(1), Undefined),
      Background(Str(<<"i", "m", "a", "g", "e">>), Str(<<>>), Num(0),
                 Str(BuiltinManifest[2].fileName)),
      Background(Str(<<"i", "m", "a", "g", "e">>), Str(<<>>), Num(9), Undefined),
      Background(Str(<<"n", "o", "n", "e">>), Undefined, Undefined, Undefined) }

EmptyStore == [k \in StoreKeys |-> Undefined]

\* Each family varies the keys one step owns and leaves the others unset.
SystemIconsStores ==
    { [EmptyStore EXCEPT !["navigator.useSystemIcons"] = old,
                         !["navigator.useSystemIconsForDirectories"] = dirs,
                         !["navigator.useSystemIconsForFiles"] = files] :
        old \in SystemIconsInputs, dirs \in DestinationInputs, files \in DestinationInputs }

PositionsStores ==
    { [EmptyStore EXCEPT !["homeBannerCustomMedia"] = custom,
                         !["homeBannerPositions"] = positions] :
        custom \in CustomMediaInputs, positions \in PositionsInputs }

SelectionStores ==
    { [EmptyStore EXCEPT !["homeBannerCustomMedia"] = custom,
                         !["homeBannerMediaId"] = mediaId,
                         !["homeBannerIndex"] = index] :
        custom \in CustomMediaInputs, mediaId \in MediaIdInputs, index \in IndexInputs }

BackgroundStores ==
    { [EmptyStore EXCEPT ![infusionPageKeys[1]] = global,
                         ![infusionPageKeys[6]] = extensions] :
        global \in BackgroundInputs, extensions \in BackgroundInputs }
    \cup
    { [EmptyStore EXCEPT ![infusionPageKeys[page]] = background] :
        page \in 2..5, background \in BackgroundInputs }
    \cup
    { [EmptyStore EXCEPT !["homeBannerCustomMedia"] =
                             Arr(<<CustomItem(Str(PathA), Str(StoredId))>>),
                         ![infusionPageKeys[2]] = background] :
        background \in BackgroundInputs }

StoreInputs ==
    SystemIconsStores \cup PositionsStores \cup SelectionStores \cup BackgroundStores

-----------------------------------------------------------------------------
(* SchemaVersionTracker and MigrationDriver (schema-utils) *)

\* Mutant: a store without a usable version counts as version 1.
currentVersion_DefaultsToOne(s, schemaVersionKey) ==
    IF TypeOf(s[schemaVersionKey]) = "number" /\ ~IsNaN(s[schemaVersionKey])
    THEN s[schemaVersionKey].n
    ELSE 1

\* currentVersion(store): 0 when the reserved key is absent or not a number
currentVersion(s, schemaVersionKey) ==
    IF TypeOf(s[schemaVersionKey]) = "number" /\ ~IsNaN(s[schemaVersionKey])
    THEN s[schemaVersionKey].n
    ELSE 0

NoLocals == [none |-> TRUE]
NoStep == 0 - 1
NoArgs == [schemaVersionKey |-> USER_SETTINGS_SCHEMA_VERSION_KEY, latestSchemaVersion |-> 0]
NoCall == [op |-> "none"]
NoWalk == [phase |-> "none"]

\* The ids of DEFAULT_GLOBAL_SHORTCUTS and the callers of the store's functions
GlobalShortcutIds == {"launchApp"}
Callers == {"callerA", "callerB"}
NoInvocation == [op |-> "none", pc |-> "idle"]

\* useGlobalShortcutsStore after construction, with no user shortcut in the
\* settings and nothing registered with the operating system
ShortcutsAtRest ==
    /\ isInitialized = FALSE
    /\ registeredShortcuts = [id \in GlobalShortcutIds |-> Undefined]
    /\ globalShortcuts = [id \in GlobalShortcutIds |-> Undefined]
    /\ osShortcuts = {}
    /\ calls = [c \in Callers |-> NoInvocation]
    /\ shortcutHistory = [sinceCleanupCall |-> 0, sinceCleanupReturn |-> 0]

Init ==
    /\ \E s \in StoreInputs, version \in VersionInputs :
         store = StorageSet(s, USER_SETTINGS_SCHEMA_VERSION_KEY, version)
    /\ pc = [p \in Procs |-> "idle"]
    /\ fromVersion = [p \in Procs |-> 0]
    /\ args = [p \in Procs |-> NoArgs]
    /\ seg = [p \in Procs |-> 0]
    /\ loc = [p \in Procs |-> NoLocals]
    /\ outcome = [p \in Procs |-> "none"]
    /\ log = [p \in Procs |-> <<>>]
    /\ reads = [p \in Procs |-> {}]
    /\ writes = [p \in Procs |-> {}]
    /\ retryOf = [p \in Procs |-> NoStep]
    /\ failedStep = NoStep
    /\ returned = 0..(currentVersion(store, USER_SETTINGS_SCHEMA_VERSION_KEY) - 1)
    /\ bumped = 1..currentVersion(store, USER_SETTINGS_SCHEMA_VERSION_KEY)
    /\ applied = [step |-> NoStep]
    /\ aborts = 0
    /\ lastCall = NoCall
    /\ walk = NoWalk
    /\ ShortcutsAtRest
    /\ homeBannerMedia = BuiltinManifest

\* migrate(store), steps 1 and 2: read the version; at or past the latest
\* version return at once, otherwise enter the loop at v = current.
migrateStorageSchema(p, schemaVersionKey, latestSchemaVersion) ==
    /\ pc[p] = "idle"
    /\ LET current == currentVersion(store, schemaVersionKey)
       IN  /\ fromVersion' = [fromVersion EXCEPT ![p] = current]
           /\ pc' = [pc EXCEPT ![p] =
                        IF current >= latestSchemaVersion THEN "idle" ELSE "applyStep"]
           /\ outcome' = [outcome EXCEPT ![p] =
                        IF current >= latestSchemaVersion THEN "noop" ELSE "running"]
    /\ args' = [args EXCEPT ![p] = [schemaVersionKey |-> schemaVersionKey,
                                    latestSchemaVersion |-> latestSchemaVersion]]
    /\ reads' = [reads EXCEPT ![p] = {schemaVersionKey}]
    /\ writes' = [writes EXCEPT ![p] = {}]
    /\ log' = [log EXCEPT ![p] =
                << <<"call", currentVersion(store, USER_SETTINGS_SCHEMA_VERSION_KEY)>> >>]
    /\ retryOf' = [retryOf EXCEPT ![p] = failedStep]
    /\ failedStep' = NoStep
    /\ UNCHANGED <<store, seg, loc, returned, bumped, applied, aborts, lastCall, homeBannerMedia,
                   walk, ShortcutVars>>

\* Mutant: the loop variable advances by two after a version write.
setVersion_SkipsAStep(p) ==
    /\ pc[p] = "setVersion"
    /\ store' = StorageSet(store, args[p].schemaVersionKey, Num(fromVersion[p] + 1))
    /\ bumped' = bumped \cup {fromVersion[p] + 1}
    /\ writes' = [writes EXCEPT ![p] = @ \cup {args[p].schemaVersionKey}]
    /\ log' = [log EXCEPT ![p] = Append(@, <<"setVersion", fromVersion[p] + 1>>)]
    /\ fromVersion' = [fromVersion EXCEPT ![p] = @ + 2]
    /\ pc' = [pc EXCEPT ![p] =
                IF fromVersion[p] + 2 < args[p].latestSchemaVersion THEN "applyStep" ELSE "idle"]
    /\ outcome' = [outcome EXCEPT ![p] =
                IF fromVersion[p] + 2 < args[p].latestSchemaVersion THEN @ ELSE "done"]
    /\ UNCHANGED <<args, seg, loc, reads, retryOf, failedStep, returned, applied, aborts,
                   lastCall, homeBannerMedia, walk, ShortcutVars>>

\* Mutant: the first version write stores the latest version.
setVersion_WritesLatest(p) ==
    /\ pc[p] = "setVersion"
    /\ store' = StorageSet(store, args[p].schemaVersionKey, Num(args[p].latestSchemaVersion))
    /\ bumped' = bumped \cup {args[p].latestSchemaVersion}
    /\ writes' = [writes EXCEPT ![p] = @ \cup {args[p].schemaVersionKey}]
    /\ log' = [log EXCEPT ![p] = Append(@, <<"setVersion", fromVersion[p] + 1>>)]
    /\ fromVersion' = [fromVersion EXCEPT ![p] = @ + 1]
    /\ pc' = [pc EXCEPT ![p] =
                IF fromVersion[p] + 1 < args[p].latestSchemaVersion THEN "applyStep" ELSE "idle"]
    /\ outcome' = [outcome EXCEPT ![p] =
                IF fromVersion[p] + 1 < args[p].latestSchemaVersion THEN @ ELSE "done"]
    /\ UNCHANGED <<args, seg, loc, reads, retryOf, failedStep, returned, applied, aborts,
                   lastCall, homeBannerMedia, walk, ShortcutVars>>

\* migrate(store), step 3: after applyStep(v, v + 1) has returned, persist
\* setVersion(v + 1), then go on to the next step or return.
setVersion(p) ==
    /\ pc[p] = "setVersion"
    /\ store' = StorageSet(store, args[p].schemaVersionKey, Num(fromVersion[p] + 1))
    /\ bumped' = bumped \cup {fromVersion[p] + 1}
    /\ writes' = [writes EXCEPT ![p] = @ \cup {args[p].schemaVersionKey}]
    /\ log' = [log EXCEPT ![p] = Append(@, <<"setVersion", fromVersion[p] + 1>>)]
    /\ fromVersion' = [fromVersion EXCEPT ![p] = @ + 1]
    /\ pc' = [pc EXCEPT ![p] =
                IF fromVersion[p] + 1 < args[p].latestSchemaVersion THEN "applyStep" ELSE "idle"]
    /\ outcome' = [outcome EXCEPT ![p] =
                IF fromVersion[p] + 1 < args[p].latestSchemaVersion THEN @ ELSE "done"]
    /\ UNCHANGED <<args, seg, loc, reads, retryOf, failedStep, returned, applied, aborts,
                   lastCall, homeBannerMedia, walk, ShortcutVars>>

\* Mutant: the driver is handed another key-path as the schema version key.
migrateUserSettingsStorage_OtherVersionKey(p) ==
    migrateStorageSchema(p, "homeBannerIndex", USER_SETTINGS_SCHEMA_VERSION)

\* Mutant: the schema version key is read under a misspelt key-path constant
\* that names the legacy icons preference.
migrateUserSettingsStorage_IconsKey(p) ==
    migrateStorageSchema(p, "navigator.useSystemIcons", USER_SETTINGS_SCHEMA_VERSION)

\* Mutant: the driver is handed a latest version one too high.
migrateUserSettingsStorage_LatestTooHigh(p) ==
    migrateStorageSchema(p, USER_SETTINGS_SCHEMA_VERSION_KEY, USER_SETTINGS_SCHEMA_VERSION + 1)

\* Mutant: the driver is handed a latest version one too low.
migrateUserSettingsStorage_LatestTooLow(p) ==
    migrateStorageSchema(p, USER_SETTINGS_SCHEMA_VERSION_KEY, USER_SETTINGS_SCHEMA_VERSION - 1)

\* export async function migrateUserSettingsStorage(storage)
migrateUserSettingsStorage(p) ==
    migrateStorageSchema(p, USER_SETTINGS_SCHEMA_VERSION_KEY, USER_SETTINGS_SCHEMA_VERSION)

-----------------------------------------------------------------------------
(* migrateUserSettingsStep(storage, fromVersion, toVersion), one action per    *)
(* stretch of a step that ends with a write (or with the step's return): a    *)
(* failure between two writes leaves the store as the earlier write left it.  *)

\* The bookkeeping of a stretch: the store it leaves, the locals it keeps for
\* the next stretch, the key-paths it read and those it passed to storage.set,
\* and whether the step returns.
StepProgress(p, newStore, newLocals, keysRead, keysWritten, returns) ==
    /\ store' = newStore
    /\ writes' = [writes EXCEPT ![p] = @ \cup keysWritten]
    /\ loc' = [loc EXCEPT ![p] = IF returns THEN NoLocals ELSE newLocals]
    /\ seg' = [seg EXCEPT ![p] = IF returns THEN 0 ELSE @ + 1]
    /\ pc' = [pc EXCEPT ![p] = IF returns THEN "setVersion" ELSE "applyStep"]
    /\ reads' = [reads EXCEPT ![p] = @ \cup keysRead]
    /\ log' = [log EXCEPT ![p] =
                (IF seg[p] = 0 THEN Append(@, <<"begin", fromVersion[p]>>) ELSE @)
                \o (IF returns THEN << <<"end", fromVersion[p]>> >> ELSE <<>>)]
    /\ returned' = IF returns THEN returned \cup {fromVersion[p]} ELSE returned
    /\ applied' = IF returns THEN [step |-> fromVersion[p], store |-> newStore]
                  ELSE applied
    /\ UNCHANGED <<fromVersion, args, outcome, retryOf, failedStep, bumped, aborts,
                   lastCall, homeBannerMedia, walk, ShortcutVars>>

\* The step throws: the exception leaves migrate(), nothing more is written.
StepThrows(p, keysRead) ==
    /\ pc' = [pc EXCEPT ![p] = "idle"]
    /\ outcome' = [outcome EXCEPT ![p] = "stepThrew"]
    /\ failedStep' = fromVersion[p]
    /\ seg' = [seg EXCEPT ![p] = 0]
    /\ loc' = [loc EXCEPT ![p] = NoLocals]
    /\ reads' = [reads EXCEPT ![p] = @ \cup keysRead]
    /\ UNCHANGED <<store, fromVersion, args, log, writes, retryOf, returned, bumped,
                   applied, aborts, lastCall, homeBannerMedia, walk, ShortcutVars>>

AtStep(p, from, stretch) ==
    /\ pc[p] = "applyStep"
    /\ fromVersion[p] = from
    /\ seg[p] = stretch

\* 0 -> 1 returns at once; a pair no branch matches falls through to the end.
StepReturnsAtOnce(p) ==
    /\ pc[p] = "applyStep"
    /\ fromVersion[p] \notin 1..4
    /\ StepProgress(p, store, NoLocals, {}, {}, TRUE)

\* 1 -> 2: the three reads and the write of the directories key
StepSystemIconsDirectories(p) ==
    /\ AtStep(p, 1, 0)
    /\ LET oldSystemIcons == oldSystemIconsOf(store)
           writesDirectories == oldSystemIcons # Undefined /\ ~directoriesAlreadySetIn(store)
       IN  StepProgress(p,
              IF writesDirectories
              THEN StorageSet(store, "navigator.useSystemIconsForDirectories",
                              oldSystemIcons)
              ELSE store,
              [oldSystemIcons |-> oldSystemIcons,
               filesAlreadySet |-> filesAlreadySetIn(store)],
              {"navigator.useSystemIcons", "navigator.useSystemIconsForDirectories",
               "navigator.useSystemIconsForFiles"},
              IF writesDirectories THEN {"navigator.useSystemIconsForDirectories"} ELSE {},
              FALSE)

\* 1 -> 2: the write of the files key
StepSystemIconsFiles(p) ==
    /\ AtStep(p, 1, 1)
    /\ LET writesFiles == loc[p].oldSystemIcons # Undefined /\ ~loc[p].filesAlreadySet
       IN  StepProgress(p,
              IF writesFiles
              THEN StorageSet(store, "navigator.useSystemIconsForFiles",
                              loc[p].oldSystemIcons)
              ELSE store,
              NoLocals, {},
              IF writesFiles THEN {"navigator.useSystemIconsForFiles"} ELSE {},
              TRUE)

\* 2 -> 3 (a): the custom-media list
StepCustomMedia(p) ==
    /\ AtStep(p, 2, 0)
    /\ LET customMediaValue == store["homeBannerCustomMedia"]
       IN  IF isLegacyFormat(customMediaValue)
           THEN \E ids \in [1..Len(customMediaValue.a) -> generateShortId] :
                  LET migratedCustom == convertLegacyCustom(customMediaValue.a, ids)
                  IN  StepProgress(p,
                         StorageSet(store, "homeBannerCustomMedia", Arr(migratedCustom)),
                         [migratedCustom |-> migratedCustom],
                         {"homeBannerCustomMedia"}, {"homeBannerCustomMedia"}, FALSE)
           ELSE StepProgress(p, store,
                   [migratedCustom |-> storedCustom(customMediaValue)],
                   {"homeBannerCustomMedia"}, {}, FALSE)

\* 2 -> 3 (b): the positions map
StepPositions(p) ==
    /\ AtStep(p, 2, 1)
    /\ LET positionsValue == store["homeBannerPositions"]
           result == migratePositions(ObjectEntries(positionsValue.e),
                                      loc[p].migratedCustom, <<>>)
       IN  IF ~hasNumericKeys(positionsValue)
           THEN StepProgress(p, store, NoLocals, {"homeBannerPositions"}, {}, TRUE)
           ELSE IF result.threw
           THEN StepThrows(p, {"homeBannerPositions"})
           ELSE StepProgress(p,
                   StorageSet(store, "homeBannerPositions", Obj(result.e)),
                   NoLocals, {"homeBannerPositions"}, {"homeBannerPositions"}, TRUE)

\* 3 -> 4: the selected media id
StepMediaId(p) ==
    /\ AtStep(p, 3, 0)
    /\ IF mediaIdIsBlank(store["homeBannerMediaId"])
       THEN StepProgress(p,
               StorageSet(store, "homeBannerMediaId",
                          resolvedMediaId(store["homeBannerCustomMedia"],
                                          store["homeBannerIndex"])),
               NoLocals,
               {"homeBannerMediaId", "homeBannerIndex", "homeBannerCustomMedia"},
               {"homeBannerMediaId"},
               TRUE)
       ELSE StepProgress(p, store, NoLocals,
               {"homeBannerMediaId", "homeBannerIndex"}, {}, TRUE)

\* 4 -> 5: one page of the loop over infusionPageKeys
StepPageBackground(p) ==
    /\ pc[p] = "applyStep"
    /\ fromVersion[p] = 4
    /\ LET storageKey == infusionPageKeys[seg[p] + 1]
       IN  IF backgroundNeedsMediaId(store[storageKey])
           THEN StepProgress(p,
                   StorageSet(store, storageKey, migratedBackground(store[storageKey])),
                   NoLocals, {storageKey}, {storageKey},
                   seg[p] + 1 = Len(infusionPageKeys))
           ELSE StepProgress(p, store, NoLocals, {storageKey}, {},
                   seg[p] + 1 = Len(infusionPageKeys))

migrateUserSettingsStep(p) ==
    \/ StepReturnsAtOnce(p)
    \/ StepSystemIconsDirectories(p)
    \/ StepSystemIconsFiles(p)
    \/ StepCustomMedia(p)
    \/ StepPositions(p)
    \/ StepMediaId(p)
    \/ StepPageBackground(p)

\* The storage adapter fails at the call the run is waiting on, or the process
\* dies there: the run ends and writes nothing more.
Abort(p) ==
    /\ pc[p] # "idle"
    /\ aborts < MaxAborts
    /\ aborts' = aborts + 1
    /\ pc' = [pc EXCEPT ![p] = "idle"]
    /\ outcome' = [outcome EXCEPT ![p] = "aborted"]
    /\ failedStep' = IF pc[p] = "applyStep" THEN fromVersion[p] ELSE NoStep
    /\ seg' = [seg EXCEPT ![p] = 0]
    /\ loc' = [loc EXCEPT ![p] = NoLocals]
    /\ UNCHANGED <<store, fromVersion, args, log, reads, writes, retryOf, returned,
                   bumped, applied, lastCall, homeBannerMedia, walk, ShortcutVars>>

Next ==
    \E p \in SingleWriter :
        \/ migrateUserSettingsStorage(p)
        \/ migrateUserSettingsStep(p)
        \/ setVersion(p)
        \/ Abort(p)

Spec == Init /\ [][Next]_vars

\* Two launches against the same store: the driver takes no lock and makes
\* no check of the version it read, so the steps and version writes of two
\* invocations interleave at every await.
ConcurrentStores ==
    { StorageSet(s, USER_SETTINGS_SCHEMA_VERSION_KEY, version) :
        s \in { EmptyStore,
                [EmptyStore EXCEPT !["homeBannerCustomMedia"] = Arr(<<Str(PathA)>>),
                                   !["homeBannerIndex"] = Num(0)] },
        version \in {Undefined, Num(2), Num(USER_SETTINGS_SCHEMA_VERSION)} }

ConcurrentInit ==
    /\ store \in ConcurrentStores
    /\ pc = [p \in Procs |-> "idle"]
    /\ fromVersion = [p \in Procs |-> 0]
    /\ args = [p \in Procs |-> NoArgs]
    /\ seg = [p \in Procs |-> 0]
    /\ loc = [p \in Procs |-> NoLocals]
    /\ outcome = [p \in Procs |-> "none"]
    /\ log = [p \in Procs |-> <<>>]
    /\ reads = [p \in Procs |-> {}]
    /\ writes = [p \in Procs |-> {}]
    /\ retryOf = [p \in Procs |-> NoStep]
    /\ failedStep = NoStep
    /\ returned = 0..(currentVersion(store, USER_SETTINGS_SCHEMA_VERSION_KEY) - 1)
    /\ bumped = 1..currentVersion(store, USER_SETTINGS_SCHEMA_VERSION_KEY)
    /\ applied = [step |-> NoStep]
    /\ aborts = 0
    /\ lastCall = NoCall
    /\ walk = NoWalk
    /\ ShortcutsAtRest
    /\ homeBannerMedia = BuiltinManifest

ConcurrentNext ==
    \E p \in Procs :
        \/ migrateUserSettingsStorage(p)
        \/ migrateUserSettingsStep(p)
        \/ setVersion(p)

ConcurrentSpec == ConcurrentInit /\ [][ConcurrentNext]_vars

-----------------------------------------------------------------------------
(* useHomeBannerMedia: the media catalog over the user settings. The settings *)
(* the composable reads (userSettings.value) and writes (userSettingsStore.   *)
(* set) are the variable store; a completed set is visible to every later     *)
(* read, computed values included.                                            *)

\* The custom list may hold at most this many entries.
MaxCustom == 2

\* userSettingsStore.set(key, value)
userSettingsStoreSet(s, key, value) == StorageSet(s, key, value)

\* src.split(/[/\\]/).pop(): what follows the last separator
RECURSIVE LastSegment(_)
LastSegment(s) ==
    IF \E i \in 1..Len(s) : s[i] \in {"/", "\\"}
    THEN LastSegment(Tail(s))
    ELSE s

\* s.replace(/\\/g, '/')
ReplaceBackslashes(s) == [i \in 1..Len(s) |-> IF s[i] = "\\" THEN "/" ELSE s[i]]

\* s.replace(/\/+/g, '/')
RECURSIVE CollapseSlashes(_)
CollapseSlashes(s) ==
    IF s = <<>> THEN <<>>
    ELSE IF Len(s) >= 2 /\ s[1] = "/" /\ s[2] = "/" THEN CollapseSlashes(Tail(s))
    ELSE <<s[1]>> \o CollapseSlashes(Tail(s))

\* s.startsWith(prefix)
StartsWith(s, prefix) ==
    Len(s) >= Len(prefix) /\ SubSeq(s, 1, Len(prefix)) = prefix

\* Mutant: every value passes for a URL.
isUrl_AnyScheme(value) == Len(value) >= 0

isUrl(value) ==
    \/ StartsWith(value, <<"h", "t", "t", "p", ":", "/", "/">>)
    \/ StartsWith(value, <<"h", "t", "t", "p", "s", ":", "/", "/">>)

\* crypto.randomUUID().replace(/-/g, '').slice(0, 8) of the composable: the
\* same generator as the migration's, with no check against the ids in use.
generateShortIdOfMedia == generateShortId

\* userSettings.value.homeBannerCustomMedia ?? []
currentCustomOf(s) ==
    IF s["homeBannerCustomMedia"] \in {Undefined, Null}
    THEN <<>>
    ELSE s["homeBannerCustomMedia"].a

\* customItems: the stored list when it is an array, else []
customItems(s) ==
    IF IsArray(s["homeBannerCustomMedia"]) THEN s["homeBannerCustomMedia"].a ELSE <<>>

builtinCount == Len(homeBannerMedia)

\* Mutant: the builtin entries come first.
allMediaItems_BuiltinsFirst(s) ==
    [i \in 1..builtinCount |->
        [kind |-> "builtin", index |-> i - 1, data |-> homeBannerMedia[i]]]
    \o [i \in 1..Len(customItems(s)) |->
        [kind |-> "custom", index |-> i - 1,
         path |-> Field(customItems(s)[i], "path"),
         id |-> Field(customItems(s)[i], "id")]]

\* allMediaItems: the custom entries in list order, then the builtin entries
\* in manifest order, each with its index within its own kind
allMediaItems(s) ==
    [i \in 1..Len(customItems(s)) |->
        [kind |-> "custom", index |-> i - 1,
         path |-> Field(customItems(s)[i], "path"),
         id |-> Field(customItems(s)[i], "id")]]
    \o [i \in 1..builtinCount |->
        [kind |-> "builtin", index |-> i - 1, data |-> homeBannerMedia[i]]]

totalCount(s) == Len(customItems(s)) + builtinCount

\* mediaId: the stored id when it is a non-blank string, else the default
mediaId(s) ==
    LET id == s["homeBannerMediaId"]
    IN  IF TypeOf(id) = "string" /\ Trim(id.s) # <<>>
        THEN id
        ELSE Str(DEFAULT_HOME_BANNER_FILE_NAME)

getPositionKey(item) ==
    IF item.kind = "builtin" THEN Str(item.data.fileName) ELSE item.id

\* items.findIndex(...) for the indices that satisfy the test: the first, or -1
FirstIndex(matching) ==
    IF matching = {} THEN 0 - 1
    ELSE (CHOOSE i \in matching : \A j \in matching : i <= j) - 1

\* Mutant: a key that is not found falls back to the first item, skipping the
\* default builtin.
normalizedIndex_FallsBackToFirst(s) ==
    LET items == allMediaItems(s)
        targetId == mediaId(s)
        foundIndex == FirstIndex({i \in 1..Len(items) : getPositionKey(items[i]) = targetId})
    IN  IF Len(items) = 0 THEN 0
        ELSE IF foundIndex >= 0 THEN foundIndex
        ELSE 0

normalizedIndex(s) ==
    LET items == allMediaItems(s)
        targetId == mediaId(s)
        foundIndex == FirstIndex({i \in 1..Len(items) : getPositionKey(items[i]) = targetId})
        defaultIndex == FirstIndex({i \in 1..Len(items) :
                            /\ items[i].kind = "builtin"
                            /\ items[i].data.fileName = DEFAULT_HOME_BANNER_FILE_NAME})
    IN  IF Len(items) = 0 THEN 0
        ELSE IF foundIndex >= 0 THEN foundIndex
        ELSE IF defaultIndex >= 0 THEN defaultIndex
        ELSE 0

\* Mutant: the current item is the first item of the catalog, whatever the
\* selection key.
currentItem_FirstEntry(s) ==
    LET item == At(allMediaItems(s), 0)
    IN  IF item = Undefined THEN Null ELSE item

\* currentItem: items[normalizedIndex] ?? null
currentItem(s) ==
    LET item == At(allMediaItems(s), normalizedIndex(s))
    IN  IF item = Undefined THEN Null ELSE item

\* The default of a page background (@/data/home-banner-media): a builtin
\* file name of its own.
DEFAULT_INFUSION_BACKGROUND_FILE_NAME == BuiltinManifest[1].fileName

\* getInfusionMediaFromBackground(background) of the infusion component: the
\* item whose media the page shows, Null when it shows none (url '', image).
getInfusionMediaFromBackground(s, background) ==
    LET id == Field(background, "mediaId")
        wanted == IF TypeOf(id) = "string" /\ Trim(id.s) # <<>>
                  THEN id
                  ELSE Str(DEFAULT_INFUSION_BACKGROUND_FILE_NAME)
        items == allMediaItems(s)
        found == FirstIndex({i \in 1..Len(items) : getPositionKey(items[i]) = wanted})
        default == FirstIndex({i \in 1..Len(items) :
                        /\ items[i].kind = "builtin"
                        /\ items[i].data.fileName = DEFAULT_INFUSION_BACKGROUND_FILE_NAME})
    IN  IF found >= 0 THEN items[found + 1]
        ELSE IF default >= 0 THEN items[default + 1]
        ELSE IF At(items, 0) # Undefined THEN items[1]
        ELSE Null

Min(a, b) == IF a <= b THEN a ELSE b
Max(a, b) == IF a >= b THEN a ELSE b

\* The record of a completed catalog operation about a path: the size of the
\* custom list it found, the index that was selected, the index of the first
\* custom entry with that path (-1: none) and the number of such entries. The
\* migration is not running.
CatalogCall(op, path) ==
    /\ lastCall' =
          LET custom == customItems(store)
              matching == {i \in 1..Len(custom) : Field(custom[i], "path") = Str(path)}
          IN  [op |-> op,
               count |-> Len(custom),
               selected |-> normalizedIndex(store),
               first |-> FirstIndex(matching),
               matches |-> Cardinality(matching)]
    /\ UNCHANGED <<pc, fromVersion, args, seg, loc, outcome, log, reads, writes,
                   retryOf, failedStep, returned, bumped, applied, aborts,
                   homeBannerMedia, walk, ShortcutVars>>

\* Mutant: the key stored is the key of the first item of the catalog, not of
\* the item at the index.
selectMedia_KeyOfFirst(index) ==
    LET item == At(allMediaItems(store), index)
    IN  /\ store' =
              IF item # Undefined
              THEN userSettingsStoreSet(
                       userSettingsStoreSet(store, "homeBannerMediaId",
                                            getPositionKey(allMediaItems(store)[1])),
                       "homeBannerIndex", Num(index))
              ELSE store
        /\ CatalogCall("selectMedia", <<>>)

\* async function selectMedia(index)
selectMedia(index) ==
    LET item == At(allMediaItems(store), index)
    IN  /\ store' =
              IF item # Undefined
              THEN userSettingsStoreSet(
                       userSettingsStoreSet(store, "homeBannerMediaId", getPositionKey(item)),
                       "homeBannerIndex", Num(index))
              ELSE store
        /\ CatalogCall("selectMedia", <<>>)

\* The entry addFilesFromPaths builds for one source path
newEntryPath(destDir, src) ==
    CollapseSlashes(ReplaceBackslashes(destDir) \o <<"/">> \o LastSegment(src))

\* Mutant: a file whose destination path is already in the list is not added
\* again.
addFilesFromPaths_Deduplicates(sourcePaths, destDir, result, ids) ==
    LET newEntries ==
            [i \in 1..Len(sourcePaths) |->
                CustomItem(Str(newEntryPath(destDir, sourcePaths[i])), Str(ids[i]))]
        currentCustom == currentCustomOf(store)
        IsNew(entry) == \A i \in 1..Len(currentCustom) :
                           Field(currentCustom[i], "path") # Field(entry, "path")
        updated == currentCustom \o SelectSeq(newEntries, IsNew)
        firstNewIndex == Min(Len(currentCustom), Len(updated) - 1)
        stored == userSettingsStoreSet(store, "homeBannerCustomMedia", Arr(updated))
        selected == userSettingsStoreSet(stored, "homeBannerMediaId",
                        Field(updated[firstNewIndex + 1], "id"))
    IN  /\ store' =
              IF Len(sourcePaths) = 0 \/ destDir = <<>> THEN store
              ELSE IF ~result.success /\ Truthy(result.error) THEN store
              ELSE userSettingsStoreSet(selected, "homeBannerIndex", Num(firstNewIndex))
        /\ CatalogCall("addFilesFromPaths", <<>>)

\* async function addFilesFromPaths(sourcePaths), with the directory the paths
\* store holds, the answer of copy_items and the ids generated
addFilesFromPaths(sourcePaths, destDir, result, ids) ==
    LET newEntries ==
            [i \in 1..Len(sourcePaths) |->
                CustomItem(Str(newEntryPath(destDir, sourcePaths[i])), Str(ids[i]))]
        currentCustom == currentCustomOf(store)
        updated == currentCustom \o newEntries
        firstNewIndex == Len(currentCustom)
        newItem == IF Len(updated) > 0 THEN updated[firstNewIndex + 1] ELSE Null
        stored == userSettingsStoreSet(store, "homeBannerCustomMedia", Arr(updated))
        selected == userSettingsStoreSet(stored, "homeBannerMediaId",
                        IF newItem = Null \/ Field(newItem, "id") \in {Undefined, Null}
                        THEN Str(DEFAULT_HOME_BANNER_FILE_NAME)
                        ELSE Field(newItem, "id"))
    IN  /\ store' =
              IF Len(sourcePaths) = 0 \/ destDir = <<>> THEN store
              ELSE IF ~result.success /\ Truthy(result.error) THEN store
              ELSE userSettingsStoreSet(selected, "homeBannerIndex", Num(firstNewIndex))
        /\ CatalogCall("addFilesFromPaths", <<>>)

\* async function addMediaUrl(url), with the id generated
addMediaUrl(url, id) ==
    LET trimmedUrl == Trim(url)
        currentCustom == currentCustomOf(store)
        exists == \E i \in 1..Len(currentCustom) :
                     Field(currentCustom[i], "path") = Str(trimmedUrl)
        newEntry == CustomItem(Str(trimmedUrl), Str(id))
        updated == Append(currentCustom, newEntry)
        newIndex == Len(currentCustom)
        stored == userSettingsStoreSet(store, "homeBannerCustomMedia", Arr(updated))
        selected == userSettingsStoreSet(stored, "homeBannerMediaId", Field(updated[newIndex + 1], "id"))
    IN  /\ store' =
              IF trimmedUrl = <<>> \/ ~isUrl(trimmedUrl) THEN store
              ELSE IF exists THEN store
              ELSE userSettingsStoreSet(selected, "homeBannerIndex", Num(newIndex))
        /\ CatalogCall("addMediaUrl", trimmedUrl)

\* async function removeCustomMedia(path). Each read after an awaited set sees
\* the settings that set left: normalizedIndex and allMediaItems are computed
\* from the filtered list.
removeCustomMedia(path) ==
    LET currentCustom == currentCustomOf(store)
        matching == {i \in 1..Len(currentCustom) : Field(currentCustom[i], "path") = Str(path)}
        removedEntry == IF matching = {} THEN Undefined
                        ELSE currentCustom[FirstIndex(matching) + 1]
        KeepsPath(entry) == Field(entry, "path") # Str(path)
        filtered == SelectSeq(currentCustom, KeepsPath)
        afterList == userSettingsStoreSet(store, "homeBannerCustomMedia", Arr(filtered))
        positionsValue == afterList["homeBannerPositions"]
        removedKey == PropertyKey(Field(removedEntry, "id"))
        OtherKey(entry) == entry[1] # removedKey
        afterPositions ==
            IF /\ removedEntry # Undefined
               /\ positionsValue \notin {Undefined, Null}
               /\ Truthy(Lookup(positionsValue.e, removedKey))
            THEN userSettingsStoreSet(afterList, "homeBannerPositions",
                                      Obj(SelectSeq(positionsValue.e, OtherKey)))
            ELSE afterList
        itemsAfter == Len(filtered) + builtinCount
        currentIdx == normalizedIndex(afterPositions)
        itemsBefore == allMediaItems(afterPositions)
        removeIdx == FirstIndex({i \in 1..Len(itemsBefore) :
                        itemsBefore[i].kind = "custom" /\ itemsBefore[i].path = Str(path)})
        reanchored == IF removeIdx >= 0 /\ currentIdx >= removeIdx /\ currentIdx > 0
                      THEN Max(0, currentIdx - 1)
                      ELSE currentIdx
        newIndex == Min(Max(0, reanchored), itemsAfter - 1)
        resolved ==
            IF itemsAfter > 0
            THEN IF newIndex < Len(filtered)
                 THEN LET entry == At(filtered, newIndex)
                      IN  IF entry \in {Undefined, Null}
                             \/ Field(entry, "id") \in {Undefined, Null}
                          THEN Str(DEFAULT_HOME_BANNER_FILE_NAME)
                          ELSE Field(entry, "id")
                 ELSE IF (newIndex - Len(filtered)) \in 0..(builtinCount - 1)
                      THEN Str(homeBannerMedia[newIndex - Len(filtered) + 1].fileName)
                      ELSE Str(DEFAULT_HOME_BANNER_FILE_NAME)
            ELSE Str(DEFAULT_HOME_BANNER_FILE_NAME)
    IN  /\ store' =
              userSettingsStoreSet(
                  userSettingsStoreSet(afterPositions, "homeBannerMediaId", resolved),
                  "homeBannerIndex", Num(newIndex))
        /\ CatalogCall("removeCustomMedia", path)

\* The banner editor saves the display position of the current item under its
\* position key. Only the positions of custom items are followed: they are the
\* ones removeCustomMedia deletes.
savePosition(position) ==
    LET item == currentItem(store)
        positionsValue == store["homeBannerPositions"]
        positions == IF positionsValue \in {Undefined, Null} THEN <<>> ELSE positionsValue.e
    IN  /\ item # Null
        /\ item.kind = "custom"
        /\ store' =
              userSettingsStoreSet(store, "homeBannerPositions",
                  Obj(ObjSet(positions, PropertyKey(getPositionKey(item)), position)))
        /\ CatalogCall("savePosition", <<>>)

\* What the user hands to the operations
\* Two files of the same name in two directories: both are copied to the
\* same path of the media directory.
SourcePathInputs == { <<"/", "s", "/", "a">>, <<"t", "\\", "a">> }

SourcePathsInputs ==
    { <<>> } \cup { <<src>> : src \in SourcePathInputs }
    \cup { << <<"/", "s", "/", "a">>, <<"t", "\\", "a">> >> }

DestDirInputs == { <<>>, <<"\\", "m", "\\">> }

CopyResultInputs ==
    { [success |-> TRUE, error |-> Undefined],
      [success |-> FALSE, error |-> Str(<<"E">>)],
      [success |-> FALSE, error |-> Undefined] }

MediaUrl == <<"h", "t", "t", "p", ":", "/", "/", "u">>

UrlInputs == { MediaUrl, <<" ">> \o MediaUrl \o <<" ">>, <<"f", "t", "p", ":", "/", "/", "u">>, <<" ">> }

RemovePathInputs == { <<"/", "m", "/", "a">>, <<"/", "m", "/", "b">>, MediaUrl }

\* The settings of a migrated installation that has no custom media yet
BannerInit ==
    /\ store \in { StorageSet(
                       StorageSet(EmptyStore, USER_SETTINGS_SCHEMA_VERSION_KEY,
                                  Num(USER_SETTINGS_SCHEMA_VERSION)),
                       "homeBannerCustomMedia", custom) :
                   custom \in {Undefined, Arr(<<>>)} }
    /\ pc = [p \in Procs |-> "idle"]
    /\ fromVersion = [p \in Procs |-> 0]
    /\ args = [p \in Procs |-> NoArgs]
    /\ seg = [p \in Procs |-> 0]
    /\ loc = [p \in Procs |-> NoLocals]
    /\ outcome = [p \in Procs |-> "none"]
    /\ log = [p \in Procs |-> <<>>]
    /\ reads = [p \in Procs |-> {}]
    /\ writes = [p \in Procs |-> {}]
    /\ retryOf = [p \in Procs |-> NoStep]
    /\ failedStep = NoStep
    /\ returned = 0..(USER_SETTINGS_SCHEMA_VERSION - 1)
    /\ bumped = 1..USER_SETTINGS_SCHEMA_VERSION
    /\ applied = [step |-> NoStep]
    /\ aborts = 0
    /\ lastCall = NoCall
    /\ walk = NoWalk
    /\ ShortcutsAtRest
    /\ homeBannerMedia = BuiltinManifest

BannerNext ==
    \/ \E index \in (0 - 1)..(MaxCustom + builtinCount) : selectMedia(index)
    \/ \E sourcePaths \in SourcePathsInputs, destDir \in DestDirInputs,
          result \in CopyResultInputs :
          /\ Len(currentCustomOf(store)) + Len(sourcePaths) <= MaxCustom
          /\ \E ids \in [1..Len(sourcePaths) -> generateShortIdOfMedia] :
                addFilesFromPaths(sourcePaths, destDir, result, ids)
    \/ \E url \in UrlInputs, id \in generateShortIdOfMedia :
          /\ Len(currentCustomOf(store)) < MaxCustom
          /\ addMediaUrl(url, id)
    \/ \E path \in RemovePathInputs : removeCustomMedia(path)
    \/ savePosition(FullPosition)

BannerSpec == BannerInit /\ [][BannerNext]_vars

\* The manifests a build may ship: the released one, one without the entry
\* DEFAULT_HOME_BANNER_FILE_NAME names, and an empty one.
ManifestInputs == { BuiltinManifest, <<BuiltinManifest[1]>>, <<>> }

\* The settings the catalog may find at start: a custom list that is empty or
\* holds one entry, and a selection key that is absent or names no entry.
CatalogStores ==
    { StorageSet(
          StorageSet(
              StorageSet(EmptyStore, USER_SETTINGS_SCHEMA_VERSION_KEY,
                         Num(USER_SETTINGS_SCHEMA_VERSION)),
              "homeBannerCustomMedia", custom),
          "homeBannerMediaId", id) :
      custom \in {Arr(<<>>), Arr(<<CustomItem(Str(PathA), Str(<<"a", "3", "f", "0", "9", "c", "1", "e">>))>>)},
      id \in {Undefined, Str(StoredId)} }

CatalogInit ==
    /\ store \in CatalogStores
    /\ homeBannerMedia \in ManifestInputs
    /\ pc = [p \in Procs |-> "idle"]
    /\ fromVersion = [p \in Procs |-> 0]
    /\ args = [p \in Procs |-> NoArgs]
    /\ seg = [p \in Procs |-> 0]
    /\ loc = [p \in Procs |-> NoLocals]
    /\ outcome = [p \in Procs |-> "none"]
    /\ log = [p \in Procs |-> <<>>]
    /\ reads = [p \in Procs |-> {}]
    /\ writes = [p \in Procs |-> {}]
    /\ retryOf = [p \in Procs |-> NoStep]
    /\ failedStep = NoStep
    /\ returned = 0..(USER_SETTINGS_SCHEMA_VERSION - 1)
    /\ bumped = 1..USER_SETTINGS_SCHEMA_VERSION
    /\ applied = [step |-> NoStep]
    /\ aborts = 0
    /\ lastCall = NoCall
    /\ walk = NoWalk
    /\ ShortcutsAtRest

\* The custom list may hold at most this many entries when the manifest varies.
MaxEntries == 1

\* The catalog operations over any manifest and any stored selection key
CatalogNext ==
    \/ \E index \in (0 - 1)..(MaxEntries + builtinCount) : selectMedia(index)
    \/ \E sourcePaths \in SourcePathsInputs, destDir \in DestDirInputs,
          result \in CopyResultInputs :
          /\ Len(currentCustomOf(store)) + Len(sourcePaths) <= MaxEntries
          /\ \E ids \in [1..Len(sourcePaths) -> generateShortIdOfMedia] :
                addFilesFromPaths(sourcePaths, destDir, result, ids)
    \/ \E url \in UrlInputs, id \in generateShortIdOfMedia :
          /\ Len(currentCustomOf(store)) < MaxEntries
          /\ addMediaUrl(url, id)
    \/ \E path \in RemovePathInputs \cup {PathA} : removeCustomMedia(path)
    \/ savePosition(FullPosition)

CatalogSpec == CatalogInit /\ [][CatalogNext]_vars

-----------------------------------------------------------------------------
(* KeyPathValidator: buildAllowedUserSettingsStorageKeys(schema) collects the *)
(* dotted key-paths of the leaves of the settings schema. A record is an      *)
(* object used as a map; every other value (a number, null, an array) is a    *)
(* leaf. The walk is depth first, one value per step.                         *)

\* The keys a schema is built from. One of them holds a dot.
KeyA == <<"a">>
KeyB == <<"b">>
KeyAB == <<"a", ".", "b">>

isRecord(value) == value.t = "object" /\ "e" \in DOMAIN value

\* Mutant: the key is appended to the prefix without a separator.
nextPrefix_NoSeparator(prefix, key) == prefix \o key

\* prefix ? `${prefix}.${key}` : key
nextPrefix(prefix, key) ==
    IF prefix = <<>> THEN key ELSE prefix \o <<".">> \o key

\* The schemas walked: records of depth one to three, with leaves of several
\* kinds, an empty record and a key that holds a dot.
LeafInputs == { Num(1), Null, Arr(<<>>) }

InnerInputs ==
    { Obj(<<>>) }
    \cup { Obj(<< <<KeyB, leaf>> >>) : leaf \in LeafInputs }
    \cup { Obj(<< <<KeyA, Obj(<< <<KeyB, Num(1)>> >>)>>, <<KeyB, Bool(TRUE)>> >>) }

SchemaInputs ==
    { Obj(<<>>) }
    \cup { Obj(<< <<KeyA, x>>, <<KeyAB, y>> >>) :
                x \in LeafInputs \cup InnerInputs, y \in {Num(1)} \cup InnerInputs }

\* The walk reads and writes no setting.
SettingsUntouched ==
    UNCHANGED <<store, pc, fromVersion, args, seg, loc, outcome, log, reads, writes,
                retryOf, failedStep, returned, bumped, applied, aborts, lastCall,
                homeBannerMedia, ShortcutVars>>

\* collectNestedRecordPaths(schema): the walk starts at the root with an
\* empty prefix.
buildAllowedUserSettingsStorageKeys(schema) ==
    /\ walk.phase # "walking"
    /\ walk' = [phase |-> "walking", schema |-> schema,
                stack |-> << <<<<>>, schema>> >>, paths |-> {}]
    /\ SettingsUntouched

\* A record is visited: its entries are visited next, in order, each under
\* the prefix extended by its key. No path is collected for the record.
VisitRecord ==
    /\ walk.phase = "walking"
    /\ walk.stack # <<>>
    /\ isRecord(Head(walk.stack)[2])
    /\ LET prefix == Head(walk.stack)[1]
           entries == ObjectEntries(Head(walk.stack)[2].e)
       IN  walk' = [walk EXCEPT
                       !.stack = [i \in 1..Len(entries) |->
                                     <<nextPrefix(prefix, entries[i][1]), entries[i][2]>>]
                                 \o Tail(walk.stack)]
    /\ SettingsUntouched

\* A leaf is visited: its path is collected.
CollectLeaf ==
    /\ walk.phase = "walking"
    /\ walk.stack # <<>>
    /\ ~isRecord(Head(walk.stack)[2])
    /\ walk' = [walk EXCEPT !.paths = @ \cup {Head(walk.stack)[1]},
                            !.stack = Tail(@)]
    /\ SettingsUntouched

\* Nothing is left to visit: the set of paths is returned.
ReturnPaths ==
    /\ walk.phase = "walking"
    /\ walk.stack = <<>>
    /\ walk' = [walk EXCEPT !.phase = "returned"]
    /\ SettingsUntouched

PathsInit ==
    /\ store = EmptyStore
    /\ pc = [p \in Procs |-> "idle"]
    /\ fromVersion = [p \in Procs |-> 0]
    /\ args = [p \in Procs |-> NoArgs]
    /\ seg = [p \in Procs |-> 0]
    /\ loc = [p \in Procs |-> NoLocals]
    /\ outcome = [p \in Procs |-> "none"]
    /\ log = [p \in Procs |-> <<>>]
    /\ reads = [p \in Procs |-> {}]
    /\ writes = [p \in Procs |-> {}]
    /\ retryOf = [p \in Procs |-> NoStep]
    /\ failedStep = NoStep
    /\ returned = {}
    /\ bumped = {}
    /\ applied = [step |-> NoStep]
    /\ aborts = 0
    /\ lastCall = NoCall
    /\ homeBannerMedia = BuiltinManifest
    /\ walk = NoWalk
    /\ ShortcutsAtRest

PathsNext ==
    \/ \E schema \in SchemaInputs : buildAllowedUserSettingsStorageKeys(schema)
    \/ VisitRecord
    \/ CollectLeaf
    \/ ReturnPaths

PathsSpec == PathsInit /\ [][PathsNext]_vars

-----------------------------------------------------------------------------
(* The global shortcut store (useGlobalShortcutsStore): it registers the      *)
(* shortcuts of DEFAULT_GLOBAL_SHORTCUTS, or the user's own, with the         *)
(* operating system. Its functions are async: a caller is suspended at each   *)
(* await of an operating-system call, and the functions of other callers run  *)
(* meanwhile. An action is the code from one such await to the next; the call *)
(* awaited takes effect, or fails, when the caller resumes. An await of a     *)
(* store function that returned without such a call does not let others in.   *)

\* The names of the parts of a shortcut string in the Tauri format
Part ==
    [Control |-> <<"C", "o", "n", "t", "r", "o", "l">>,
     CommandOrControl |-> <<"C", "o", "m", "m", "a", "n", "d", "O", "r",
                            "C", "o", "n", "t", "r", "o", "l">>,
     Alt |-> <<"A", "l", "t">>,
     Shift |-> <<"S", "h", "i", "f", "t">>,
     Super |-> <<"S", "u", "p", "e", "r">>,
     Space |-> <<"S", "p", "a", "c", "e">>]

\* shortcut.split('+')
RECURSIVE SplitOnPlus(_)
SplitOnPlus(s) ==
    IF \A i \in 1..Len(s) : s[i] # "+" THEN <<s>>
    ELSE LET i == CHOOSE n \in 1..Len(s) : s[n] = "+" /\ \A j \in 1..(n - 1) : s[j] # "+"
         IN  <<SubSeq(s, 1, i - 1)>> \o SplitOnPlus(SubSeq(s, i + 1, Len(s)))

\* parts.join('+')
RECURSIVE JoinWithPlus(_)
JoinWithPlus(parts) ==
    IF parts = <<>> THEN <<>>
    ELSE IF Len(parts) = 1 THEN parts[1]
    ELSE parts[1] \o <<"+">> \o JoinWithPlus(Tail(parts))

\* toUpperCase of one character, over the letters the key inputs use
toUpperCase(c) == IF c = "e" THEN "E" ELSE IF c = "k" THEN "K" ELSE c

\* ShortcutKeys are records of ctrl, alt, meta, shift and key; a modifier
\* that is absent counts as false.
shortcutKeysToTauriFormat(keys) ==
    LET parts == (IF keys.ctrl THEN <<Part.Control>> ELSE <<>>)
                 \o (IF keys.alt THEN <<Part.Alt>> ELSE <<>>)
                 \o (IF keys.meta THEN <<Part.Super>> ELSE <<>>)
                 \o (IF keys.shift THEN <<Part.Shift>> ELSE <<>>)
        keyName == IF keys.key = <<" ">> THEN Part.Space
                   ELSE IF Len(keys.key) = 1 THEN <<toUpperCase(keys.key[1])>>
                   ELSE keys.key
    IN  JoinWithPlus(Append(parts, keyName))

\* The loop of tauriFormatToShortcutKeys over the parts of the string
RECURSIVE keysOfParts(_, _)
keysOfParts(parts, keys) ==
    IF parts = <<>> THEN keys
    ELSE LET part == Head(parts)
         IN  keysOfParts(Tail(parts),
                 IF part = Part.Control \/ part = Part.CommandOrControl
                 THEN [keys EXCEPT !.ctrl = TRUE]
                 ELSE IF part = Part.Alt THEN [keys EXCEPT !.alt = TRUE]
                 ELSE IF part = Part.Shift THEN [keys EXCEPT !.shift = TRUE]
                 ELSE IF part = Part.Super THEN [keys EXCEPT !.meta = TRUE]
                 ELSE [keys EXCEPT !.key = IF part = Part.Space THEN <<" ">> ELSE part])

tauriFormatToShortcutKeys(shortcut) ==
    keysOfParts(SplitOnPlus(shortcut),
                [ctrl |-> FALSE, alt |-> FALSE, meta |-> FALSE, shift |-> FALSE, key |-> <<>>])

normalizeShortcutString(shortcut) ==
    shortcutKeysToTauriFormat(tauriFormatToShortcutKeys(shortcut))

\* definitions: DEFAULT_GLOBAL_SHORTCUTS, launchApp with 'Super+Shift+E'
definitions ==
    << [id |-> "launchApp",
        defaultShortcut |-> Part.Super \o <<"+">> \o Part.Shift \o <<"+", "E">>] >>

\* getShortcutString(globalShortcutId), over the settings' globalShortcuts:
\* the user's string, else the default of the definition, else '', normalized
getShortcutString(settings, globalShortcutId) ==
    LET userShortcut == settings[globalShortcutId]
        found == {i \in 1..Len(definitions) : definitions[i].id = globalShortcutId}
        raw == IF userShortcut \notin {Undefined, Null} THEN userShortcut.s
               ELSE IF found # {}
                    THEN definitions[CHOOSE i \in found : \A j \in found : i <= j].defaultShortcut
                    ELSE <<>>
    IN  IF raw # <<>> THEN normalizeShortcutString(raw) ELSE <<>>

\* getHandler(globalShortcutId): the handler of the id, or none
getHandler(globalShortcutId) ==
    IF globalShortcutId = "launchApp" THEN "focusAppWindow" ELSE "null"

\* register and unregister of the plugin when they succeed: the operating
\* system holds at most one handler per key combination
osUnregister(os, shortcut) == {r \in os : r.shortcut # shortcut}
osRegister(os, shortcut, globalShortcutId) ==
    osUnregister(os, shortcut) \cup {[shortcut |-> shortcut, id |-> globalShortcutId]}

\* A caller inside a store function: the function it called, with its
\* arguments, and where it is suspended
Invocation(op, target, keys, at, id, shortcutString, rest) ==
    [op |-> op, target |-> target, keys |-> keys,
     pc |-> at, id |-> id, shortcutString |-> shortcutString, rest |-> rest]

\* Where a caller is after registerShortcut has been called for each of
\* these ids in turn (registerAllShortcuts: the definitions; setShortcut and
\* resetShortcut: the one id): at the unregister of the first id that has a
\* shortcut string and a handler, else at the invoke of syncTrayShortcutHint
RECURSIVE registerShortcutsFrom(_, _, _)
registerShortcutsFrom(call, ids, settings) ==
    IF ids = <<>>
    THEN Invocation(call.op, call.target, call.keys, "syncTray", "", <<>>, <<>>)
    ELSE LET shortcutString == getShortcutString(settings, Head(ids))
         IN  IF shortcutString = <<>> \/ getHandler(Head(ids)) = "null"
             THEN registerShortcutsFrom(call, Tail(ids), settings)
             ELSE Invocation(call.op, call.target, call.keys,
                             "unregister", Head(ids), shortcutString, Tail(ids))

\* The migration, the catalog and the key-path walk take no part
SettingsAndCatalogUntouched ==
    UNCHANGED <<store, pc, fromVersion, args, seg, loc, outcome, log, reads, writes,
                retryOf, failedStep, returned, bumped, applied, aborts, lastCall,
                homeBannerMedia, walk>>

\* async function init(): the flag is read and set before the first await
init(c) ==
    /\ calls[c].pc = "idle"
    /\ IF isInitialized
       THEN UNCHANGED <<isInitialized, calls, shortcutHistory>>
       ELSE /\ isInitialized' = TRUE
            /\ calls' = [calls EXCEPT ![c] =
                  registerShortcutsFrom(
                      [op |-> "init", target |-> "all", keys |-> <<>>],
                      [i \in 1..Len(definitions) |-> definitions[i].id],
                      globalShortcuts)]
            /\ shortcutHistory' =
                  [shortcutHistory EXCEPT !.sinceCleanupCall = @ + 1,
                                          !.sinceCleanupReturn = @ + 1]
    /\ UNCHANGED <<registeredShortcuts, globalShortcuts, osShortcuts>>
    /\ SettingsAndCatalogUntouched

\* async function cleanup(), up to the await of unregisterAll()
cleanup(c) ==
    /\ calls[c].pc = "idle"
    /\ calls' = [calls EXCEPT ![c] =
          Invocation("cleanup", "all", <<>>, "unregisterAll", "", <<>>, <<>>)]
    /\ shortcutHistory' = [shortcutHistory EXCEPT !.sinceCleanupCall = 0]
    /\ UNCHANGED <<isInitialized, registeredShortcuts, globalShortcuts, osShortcuts>>
    /\ SettingsAndCatalogUntouched

\* unregisterAllShortcuts() resumes: unregisterAll() succeeded (the map is
\* cleared) or threw; cleanup() then resets the flag and returns
unregisterAllShortcuts(c, ok) ==
    /\ calls[c].pc = "unregisterAll"
    /\ osShortcuts' = IF ok THEN {} ELSE osShortcuts
    /\ registeredShortcuts' =
          IF ok THEN [id \in GlobalShortcutIds |-> Undefined] ELSE registeredShortcuts
    /\ isInitialized' = FALSE
    /\ calls' = [calls EXCEPT ![c] = NoInvocation]
    /\ shortcutHistory' = [shortcutHistory EXCEPT !.sinceCleanupReturn = 0]
    /\ UNCHANGED globalShortcuts
    /\ SettingsAndCatalogUntouched

\* The settings setShortcut and resetShortcut write once unregisterShortcut
\* has returned: the id set to the string of the keys, or deleted
writtenShortcuts(call) ==
    IF call.op = "setShortcut"
    THEN [globalShortcuts EXCEPT ![call.target] = Str(shortcutKeysToTauriFormat(call.keys))]
    ELSE [globalShortcuts EXCEPT ![call.target] = Undefined]

\* Where setShortcut and resetShortcut are at their first await of an
\* operating-system call: at the unregister of unregisterShortcut when the
\* map holds a string for the id, else inside registerShortcut, the settings
\* written
unregisterShortcutFrom(call) ==
    LET existingShortcut == registeredShortcuts[call.target]
    IN  IF Truthy(existingShortcut)
        THEN Invocation(call.op, call.target, call.keys, "unregisterExisting",
                        call.target, existingShortcut.s, <<>>)
        ELSE registerShortcutsFrom(call, <<call.target>>, writtenShortcuts(call))

\* async function setShortcut(globalShortcutId, keys)
setShortcut(c, globalShortcutId, keys) ==
    LET call == [op |-> "setShortcut", target |-> globalShortcutId, keys |-> keys]
    IN  /\ calls[c].pc = "idle"
        /\ calls' = [calls EXCEPT ![c] = unregisterShortcutFrom(call)]
        /\ globalShortcuts' =
              IF Truthy(registeredShortcuts[globalShortcutId]) THEN globalShortcuts
              ELSE writtenShortcuts(call)
        /\ UNCHANGED <<isInitialized, registeredShortcuts, osShortcuts, shortcutHistory>>
        /\ SettingsAndCatalogUntouched

\* async function resetShortcut(globalShortcutId)
resetShortcut(c, globalShortcutId) ==
    LET call == [op |-> "resetShortcut", target |-> globalShortcutId, keys |-> <<>>]
    IN  /\ calls[c].pc = "idle"
        /\ calls' = [calls EXCEPT ![c] = unregisterShortcutFrom(call)]
        /\ globalShortcuts' =
              IF Truthy(registeredShortcuts[globalShortcutId]) THEN globalShortcuts
              ELSE writtenShortcuts(call)
        /\ UNCHANGED <<isInitialized, registeredShortcuts, osShortcuts, shortcutHistory>>
        /\ SettingsAndCatalogUntouched

\* unregisterShortcut(id) resumes: unregister(existingShortcut) succeeded (the
\* id leaves the map) or threw (the map keeps it); setShortcut or
\* resetShortcut then writes the settings and calls registerShortcut
unregisterShortcut(c, ok) ==
    LET call == calls[c]
    IN  /\ call.pc = "unregisterExisting"
        /\ osShortcuts' = IF ok THEN osUnregister(osShortcuts, call.shortcutString)
                          ELSE osShortcuts
        /\ registeredShortcuts' =
              IF ok THEN [registeredShortcuts EXCEPT ![call.id] = Undefined]
              ELSE registeredShortcuts
        /\ globalShortcuts' = writtenShortcuts(call)
        /\ calls' = [calls EXCEPT ![c] =
              registerShortcutsFrom(call, <<call.target>>, writtenShortcuts(call))]
        /\ UNCHANGED <<isInitialized, shortcutHistory>>
        /\ SettingsAndCatalogUntouched

\* registerShortcut(id) resumes from unregister(shortcutString), whose failure
\* is ignored, and calls register(shortcutString, handler)
registerShortcutUnregistered(c, ok) ==
    LET call == calls[c]
    IN  /\ call.pc = "unregister"
        /\ osShortcuts' = IF ok THEN osUnregister(osShortcuts, call.shortcutString)
                          ELSE osShortcuts
        /\ calls' = [calls EXCEPT ![c] = [call EXCEPT !.pc = "register"]]
        /\ UNCHANGED <<isInitialized, registeredShortcuts, globalShortcuts, shortcutHistory>>
        /\ SettingsAndCatalogUntouched

\* registerShortcut(id) resumes from register(shortcutString, handler): on
\* success the map records the string for the id; the caller goes on to the
\* next definition or to syncTrayShortcutHint
registerShortcut(c, ok) ==
    LET call == calls[c]
    IN  /\ call.pc = "register"
        /\ osShortcuts' = IF ok THEN osRegister(osShortcuts, call.shortcutString, call.id)
                          ELSE osShortcuts
        /\ registeredShortcuts' =
              IF ok THEN [registeredShortcuts EXCEPT ![call.id] = Str(call.shortcutString)]
              ELSE registeredShortcuts
        /\ calls' = [calls EXCEPT ![c] =
              registerShortcutsFrom(call, call.rest, globalShortcuts)]
        /\ UNCHANGED <<isInitialized, globalShortcuts, shortcutHistory>>
        /\ SettingsAndCatalogUntouched

\* syncTrayShortcutHint() resumes from invoke('update_tray_shortcut'), whose
\* failure is logged, and init, setShortcut or resetShortcut returns
syncTrayShortcutHint(c) ==
    /\ calls[c].pc = "syncTray"
    /\ calls' = [calls EXCEPT ![c] = NoInvocation]
    /\ UNCHANGED <<isInitialized, registeredShortcuts, globalShortcuts, osShortcuts,
                   shortcutHistory>>
    /\ SettingsAndCatalogUntouched

\* The keys a user records: Ctrl+K and the space bar
KeysInputs ==
    { [ctrl |-> TRUE, alt |-> FALSE, meta |-> FALSE, shift |-> FALSE, key |-> <<"k">>],
      [ctrl |-> FALSE, alt |-> FALSE, meta |-> FALSE, shift |-> FALSE, key |-> <<" ">>] }

\* The store after construction; the settings hold no user shortcut, or one
\* written in another spelling of the format
ShortcutInit ==
    /\ store = EmptyStore
    /\ pc = [p \in Procs |-> "idle"]
    /\ fromVersion = [p \in Procs |-> 0]
    /\ args = [p \in Procs |-> NoArgs]
    /\ seg = [p \in Procs |-> 0]
    /\ loc = [p \in Procs |-> NoLocals]
    /\ outcome = [p \in Procs |-> "none"]
    /\ log = [p \in Procs |-> <<>>]
    /\ reads = [p \in Procs |-> {}]
    /\ writes = [p \in Procs |-> {}]
    /\ retryOf = [p \in Procs |-> NoStep]
    /\ failedStep = NoStep
    /\ returned = {}
    /\ bumped = {}
    /\ applied = [step |-> NoStep]
    /\ aborts = 0
    /\ lastCall = NoCall
    /\ homeBannerMedia = BuiltinManifest
    /\ walk = NoWalk
    /\ isInitialized = FALSE
    /\ registeredShortcuts = [id \in GlobalShortcutIds |-> Undefined]
    /\ globalShortcuts \in
          { [id \in GlobalShortcutIds |-> Undefined],
            [id \in GlobalShortcutIds |-> Str(Part.CommandOrControl \o <<"+", "k">>)] }
    /\ osShortcuts = {}
    /\ calls = [c \in Callers |-> NoInvocation]
    /\ shortcutHistory = [sinceCleanupCall |-> 0, sinceCleanupReturn |-> 0]

\* Any caller may call a function of the store, and any suspended caller may
\* resume, the operating-system call it awaited having succeeded or failed
ShortcutNext ==
    \E c \in Callers :
        \/ init(c)
        \/ cleanup(c)
        \/ \E id \in GlobalShortcutIds, keys \in KeysInputs : setShortcut(c, id, keys)
        \/ \E id \in GlobalShortcutIds : resetShortcut(c, id)
        \/ \E ok \in BOOLEAN : unregisterAllShortcuts(c, ok)
        \/ \E ok \in BOOLEAN : unregisterShortcut(c, ok)
        \/ \E ok \in BOOLEAN : registerShortcutUnregistered(c, ok)
        \/ \E ok \in BOOLEAN : registerShortcut(c, ok)
        \/ syncTrayShortcutHint(c)

ShortcutSpec == ShortcutInit /\ [][ShortcutNext]_vars

-----------------------------------------------------------------------------
(* Properties *)

\* The stored schema version, as currentVersion reads it
StoredVersion == currentVersion(store, USER_SETTINGS_SCHEMA_VERSION_KEY)

\* The reserved key holds a version between 0 and the latest one
VersionInRange(s) ==
    /\ TypeOf(s[USER_SETTINGS_SCHEMA_VERSION_KEY]) = "number"
    /\ s[USER_SETTINGS_SCHEMA_VERSION_KEY].n \in 0..USER_SETTINGS_SCHEMA_VERSION

\* C1: Monotonic convergence. From a stored version between 0 and latest,
\* repeated migrate() calls with failures injected at any point end with the
\* stored version equal to latest, and the stored version never decreases:
\* the stored version never goes down in any step, and every run that is not
\* cut short by an injected failure leaves the store at the latest version.
C1_MonotonicConvergence ==
    [][ /\ currentVersion(store', USER_SETTINGS_SCHEMA_VERSION_KEY) >= StoredVersion
        /\ \A p \in Procs :
              ( /\ pc'[p] = "idle"
                /\ outcome'[p] \in {"done", "noop", "stepThrew"}
                /\ VersionInRange(store') )
              => store'[USER_SETTINGS_SCHEMA_VERSION_KEY].n = USER_SETTINGS_SCHEMA_VERSION
      ]_vars

\* C2: When step (v, v + 1) throws, the run is over with the failure handed to
\* the caller and the stored version still v, and the next migrate() call
\* begins with that same step.
C2_FailedStepIsRetried ==
    /\ failedStep # NoStep =>
          /\ StoredVersion = failedStep
          /\ \E p \in Procs : pc[p] = "idle" /\ outcome[p] \in {"stepThrew", "aborted"}
          /\ \A p \in Procs : pc[p] = "idle"
    /\ \A p \in Procs :
          retryOf[p] # NoStep =>
             /\ outcome[p] # "noop"
             /\ log[p][1] = <<"call", retryOf[p]>>
             /\ Len(log[p]) >= 2 => log[p][2] = <<"begin", retryOf[p]>>
             /\ (pc[p] = "applyStep" /\ Len(log[p]) = 1) => fromVersion[p] = retryOf[p]

\* C2 witness: step (2, 3) threw, the next call retried it, and it threw again.
C2_Witness ==
    \E p \in Procs :
        /\ retryOf[p] = 2
        /\ outcome[p] = "stepThrew"
        /\ failedStep = 2
        /\ StoredVersion = 2

\* Step (u, u + 1) has fully completed: applyStep has returned and the version
\* bump that closes it has been written.
FullyCompleted(u) == u \in returned /\ (u + 1) \in bumped

HighestCompleted ==
    CHOOSE n \in 0..(USER_SETTINGS_SCHEMA_VERSION + 2) :
        /\ \A u \in 0..(n - 1) : FullyCompleted(u)
        /\ ~FullyCompleted(n)

\* C3: In every reachable state the stored schema version is the highest
\* version whose steps have all fully completed, and no version is ever
\* written whose step has not returned.
C3_VersionIsHighestCompleted ==
    /\ StoredVersion = HighestCompleted
    /\ \A n \in bumped : (n - 1) \in returned

\* C3 witness: after a failed run, a later run is between the return of a step
\* and the write of its version.
C3_Witness ==
    \E p \in Procs :
        /\ aborts > 0
        /\ pc[p] = "setVersion"
        /\ fromVersion[p] = 3
        /\ StoredVersion = 3

\* The events of one run: call, then for each step begin, end, setVersion.
WellOrdered(l) ==
    \A i \in 1..Len(l) :
        /\ l[i][1] = "call" => i = 1
        /\ l[i][1] = "begin" =>
              i > 1 /\ l[i - 1] \in {<<"call", l[i][2]>>, <<"setVersion", l[i][2]>>}
        /\ l[i][1] = "end" => i > 1 /\ l[i - 1] = <<"begin", l[i][2]>>
        /\ l[i][1] = "setVersion" => i > 1 /\ l[i - 1] = <<"end", l[i][2] - 1>>

\* C4: Within one migrate() invocation the steps run in increasing version
\* order, and setVersion(v + 1) is written after step (v, v + 1) has returned
\* and before step (v + 1, v + 2) begins.
C4_StepsInOrder == \A p \in Procs : WellOrdered(log[p])

\* C4 witness: a run that has gone through two steps and their version writes.
C4_Witness ==
    \E p \in Procs :
        /\ Len(log[p]) >= 7
        /\ log[p][4] = <<"setVersion", 2>>
        /\ log[p][7] = <<"setVersion", 3>>

\* C5: A migrate() call that finds the stored version at or past the latest
\* returns at once: no step is invoked, nothing is written to the store, and
\* only the version key is read.
C5_NoOpAtLatest ==
    [][ \A p \in SingleWriter :
          (pc[p] = "idle" /\ StoredVersion >= USER_SETTINGS_SCHEMA_VERSION)
          => /\ pc'[p] = "idle"
             /\ outcome'[p] = "noop"
             /\ store' = store
             /\ log'[p] = << <<"call", StoredVersion>> >>
             /\ reads'[p] = {USER_SETTINGS_SCHEMA_VERSION_KEY}
      ]_vars

\* C5 witness: a call has returned at once on a version larger than the latest.
C5_Witness ==
    \E p \in Procs :
        /\ outcome[p] = "noop"
        /\ StoredVersion > USER_SETTINGS_SCHEMA_VERSION
        /\ store["homeBannerPositions"] # Undefined

\* C6: Idempotence. A step that has returned and is applied again (the version
\* bump that follows it was never written) returns the store its first
\* application left.
C6_StepsAreIdempotent ==
    [][ \A p \in Procs :
          ( /\ pc[p] = "applyStep"
            /\ pc'[p] = "setVersion"
            /\ applied.step = fromVersion[p] )
          => store' = applied.store
      ]_vars

IsEnd(event) == event[1] = "end"
IsBegin(event) == event[1] = "begin"

\* C7: A run that starts at stored version v below the latest and meets no
\* failure applies each step (u, u + 1) with v <= u < latest exactly once, in
\* order, and no step below v.
C7_EachStepOnce ==
    \A p \in Procs :
        (pc[p] = "idle" /\ outcome[p] = "done") =>
            LET v == log[p][1][2]
            IN  /\ SelectSeq(log[p], IsEnd) =
                     [i \in 1..(USER_SETTINGS_SCHEMA_VERSION - v) |-> <<"end", v + i - 1>>]
                /\ SelectSeq(log[p], IsBegin) =
                     [i \in 1..(USER_SETTINGS_SCHEMA_VERSION - v) |-> <<"begin", v + i - 1>>]
                /\ StoredVersion = USER_SETTINGS_SCHEMA_VERSION

\* C7 witness: a run from version 1 has ended without a failure.
C7_Witness ==
    \E p \in Procs :
        /\ pc[p] = "idle"
        /\ outcome[p] = "done"
        /\ log[p][1] = <<"call", 1>>
        /\ aborts = 0

\* C8: No migration step throws because of the shape of the stored data.
C8_NoStepThrowsOnDataShape == \A p \in Procs : outcome[p] # "stepThrew"

\* The custom entries the store holds
CustomEntries(s) ==
    IF IsArray(s["homeBannerCustomMedia"]) THEN s["homeBannerCustomMedia"].a ELSE <<>>

\* Every custom entry is a {path, id} record with a string id
WellFormedCatalog(custom) ==
    \A i \in 1..Len(custom) :
        custom[i].t = "object" /\ Field(custom[i], "id").t = "string"

IsMap(v) == v.t = "object" /\ "e" \in DOMAIN v

\* Every value of the map is an object
AllValuesAreObjects(e) ==
    \A i \in 1..Len(e) : Truthy(e[i][2]) /\ TypeOf(e[i][2]) = "object"

\* Step 2 -> 3 has run its positions part in this step of the behaviour
\* (it returned or threw; the run was not cut short from outside).
PositionsPartRan(p) ==
    /\ AtStep(p, 2, 1)
    /\ pc'[p] # "applyStep"
    /\ outcome'[p] # "aborted"

\* C9: Step 2 -> 3, for a catalog with c custom entries and b builtin entries
\* and a positions map of position objects: the legacy key that is the numeric
\* index i is rewritten to the id of the i-th custom entry when 0 <= i < c, to
\* builtin[i - c].fileName when c <= i < c + b, and dropped when i >= c + b.
C9_NumericKeysAreRewritten ==
    [][ \A p \in Procs :
          PositionsPartRan(p) =>
            LET old == store["homeBannerPositions"]
                new == store'["homeBannerPositions"]
                custom == CustomEntries(store)
                c == Len(custom)
                b == Len(homeBannerMedia)
            IN  (IsMap(old) /\ AllValuesAreObjects(old.e) /\ WellFormedCatalog(custom))
                => \A key \in KeysOf(old.e) :
                      RegexDigits(key) =>
                        LET i == LeadingDigitsValue(key, 0)
                        IN  /\ IsMap(new)
                            /\ i < c => HasKey(new.e, custom[i + 1].id.s)
                            /\ (c <= i /\ i < c + b) =>
                                  HasKey(new.e, homeBannerMedia[i - c + 1].fileName)
                            /\ i >= c + b => ~HasKey(new.e, key)
      ]_vars

\* C10: Step 2 -> 3 keeps every key of the positions map that does not match
\* /^\d+$/, with exactly the value it had.
C10_OtherKeysPassThrough ==
    [][ \A p \in Procs :
          PositionsPartRan(p) =>
            LET old == store["homeBannerPositions"]
                new == store'["homeBannerPositions"]
            IN  IsMap(old) =>
                  \A i \in 1..Len(old.e) :
                      ~RegexDigits(old.e[i][1]) =>
                          /\ IsMap(new)
                          /\ HasKey(new.e, old.e[i][1])
                          /\ Lookup(new.e, old.e[i][1]) = old.e[i][2]
      ]_vars

\* Step 2 -> 3 has run its custom-list part in this step of the behaviour.
CustomPartRan(p) == AtStep(p, 2, 0) /\ seg'[p] = 1

\* C11: Step 2 -> 3 turns a stored array of path strings into an array of
\* {path, id} records of the same length, with the same paths in the same order
\* and one generated id per entry; a stored array whose first element is an
\* object is left as it is and is not written.
C11_CustomListRewrite ==
    [][ \A p \in Procs :
          CustomPartRan(p) =>
            LET old == store["homeBannerCustomMedia"]
                new == store'["homeBannerCustomMedia"]
            IN  /\ ( /\ IsArray(old)
                     /\ Len(old.a) > 0
                     /\ \A i \in 1..Len(old.a) : TypeOf(old.a[i]) = "string" )
                   => /\ IsArray(new)
                      /\ Len(new.a) = Len(old.a)
                      /\ \A i \in 1..Len(old.a) :
                            /\ new.a[i].t = "object"
                            /\ Field(new.a[i], "path") = old.a[i]
                            /\ TypeOf(Field(new.a[i], "id")) = "string"
                            /\ Field(new.a[i], "id").s \in generateShortId
                /\ ( /\ IsArray(old)
                     /\ Len(old.a) > 0
                     /\ TypeOf(old.a[1]) = "object" )
                   => /\ new = old
                      /\ "homeBannerCustomMedia" \notin writes'[p]
      ]_vars

\* C11 witness: step 2 -> 3 has written a converted list of two entries.
C11_Witness ==
    \E p \in Procs :
        /\ AtStep(p, 2, 1)
        /\ "homeBannerCustomMedia" \in writes[p]
        /\ Len(CustomEntries(store)) = 2
        /\ Field(CustomEntries(store)[1], "path") = Str(PathA)
        /\ Field(CustomEntries(store)[2], "path") = Str(PathB)

\* A stored value that is absent, or a string of white space only
AbsentOrBlank(v) == v = Undefined \/ (TypeOf(v) = "string" /\ Trim(v.s) = <<>>)

\* Step 3 -> 4 has run in this step of the behaviour.
MediaIdStepRan(p) == AtStep(p, 3, 0) /\ pc'[p] = "setVersion"

\* C12: Step 3 -> 4 with homeBannerMediaId absent or blank, index the stored
\* homeBannerIndex (0 if not a number) and c the length of the custom list:
\* the id written is custom[index].id for 0 <= index < c, builtin[index - c]
\* .fileName for c <= index < c + b, and the default file name otherwise.
C12_MediaIdFromIndex ==
    [][ \A p \in Procs :
          (MediaIdStepRan(p) /\ AbsentOrBlank(store["homeBannerMediaId"])) =>
            LET custom == CustomEntries(store)
                c == Len(custom)
                b == Len(homeBannerMedia)
                index == IF TypeOf(store["homeBannerIndex"]) = "number"
                         THEN store["homeBannerIndex"].n ELSE 0
            IN  WellFormedCatalog(custom) =>
                  /\ "homeBannerMediaId" \in writes'[p]
                  /\ store'["homeBannerMediaId"] =
                        IF 0 <= index /\ index < c THEN custom[index + 1].id
                        ELSE IF c <= index /\ index < c + b
                        THEN Str(homeBannerMedia[index - c + 1].fileName)
                        ELSE Str(DEFAULT_HOME_BANNER_FILE_NAME)
      ]_vars

\* C12 witness: index 1 with one custom entry has given the first builtin.
C12_Witness ==
    \E p \in Procs :
        /\ pc[p] = "setVersion"
        /\ fromVersion[p] = 3
        /\ "homeBannerMediaId" \in writes[p]
        /\ store["homeBannerIndex"] = Num(1)
        /\ Len(CustomEntries(store)) = 1
        /\ WellFormedCatalog(CustomEntries(store))
        /\ store["homeBannerMediaId"] = Str(homeBannerMedia[1].fileName)

\* The position keys of the catalog the settings describe
PositionKeys(s) ==
    {getPositionKey(allMediaItems(s)[i]) : i \in 1..Len(allMediaItems(s))}

\* C13: Once a migrate() run that applied step 3 -> 4 has brought the store to
\* the latest version, homeBannerMediaId is a non-blank string that is the
\* position key of an entry of the catalog.
C13_SelectionKeyResolves ==
    \A p \in Procs :
        ( /\ pc[p] = "idle"
          /\ outcome[p] = "done"
          /\ \E i \in 1..Len(log[p]) : log[p][i] = <<"end", 3>> )
        => /\ TypeOf(store["homeBannerMediaId"]) = "string"
           /\ Trim(store["homeBannerMediaId"].s) # <<>>
           /\ store["homeBannerMediaId"] \in PositionKeys(store)

\* Step 4 -> 5 has handled one page in this step of the behaviour.
PageStepRan(p) == pc[p] = "applyStep" /\ fromVersion[p] = 4 /\ pc'[p] # "idle"

\* C14: Step 4 -> 5, for each page key: a descriptor with no mediaId and a
\* numeric index i inside the builtin manifest gets mediaId builtin[i].fileName,
\* whatever the custom list holds, and keeps its other fields; any other
\* descriptor is not written; no other key changes.
C14_PageBackgrounds ==
    [][ \A p \in Procs :
          PageStepRan(p) =>
            LET key == infusionPageKeys[seg[p] + 1]
                old == store[key]
                new == store'[key]
                applies == /\ old.t = "object"
                           /\ ~Truthy(Field(old, "mediaId"))
                           /\ TypeOf(Field(old, "index")) = "number"
                           /\ Field(old, "index").n >= 0
                           /\ Field(old, "index").n < Len(homeBannerMedia)
            IN  /\ \A k \in StoreKeys \ {key} : store'[k] = store[k]
                /\ applies =>
                      /\ key \in writes'[p]
                      /\ new.mediaId = Str(homeBannerMedia[old.index.n + 1].fileName)
                      /\ new.t = old.t
                      /\ new.type = old.type
                      /\ new.path = old.path
                      /\ new.index = old.index
                /\ ~applies => (new = old /\ key \notin writes'[p])
      ]_vars

\* C14 witness: the navigator page's descriptor, index 1, has been given the
\* second builtin's file name.
C14_Witness ==
    \E p \in Procs :
        /\ pc[p] = "setVersion"
        /\ fromVersion[p] = 4
        /\ infusionPageKeys[3] \in writes[p]
        /\ store[infusionPageKeys[3]].index = Num(1)
        /\ store[infusionPageKeys[3]].mediaId = Str(homeBannerMedia[2].fileName)

\* C15: Step 1 -> 2 writes a destination key, with the legacy boolean, only
\* when that destination is unset; a destination that is set keeps its value;
\* with the legacy key absent nothing is written.
C15_SystemIconsGuard ==
    [][ \A p \in Procs :
          LET legacy == store["navigator.useSystemIcons"]
              Guarded(key) ==
                  /\ \A k \in StoreKeys \ {key} : store'[k] = store[k]
                  /\ writes'[p] \ writes[p] \subseteq {key}
                  /\ key \in writes'[p] =>
                        (store[key] = Undefined /\ TypeOf(legacy) = "boolean")
                  /\ (store[key] = Undefined /\ TypeOf(legacy) = "boolean") =>
                        (store'[key] = legacy /\ key \in writes'[p])
                  /\ store[key] # Undefined => store'[key] = store[key]
                  /\ legacy = Undefined => (store' = store /\ writes'[p] = writes[p])
          IN  /\ (AtStep(p, 1, 0) /\ seg'[p] = 1) =>
                    Guarded("navigator.useSystemIconsForDirectories")
              /\ (AtStep(p, 1, 1) /\ pc'[p] = "setVersion") =>
                    Guarded("navigator.useSystemIconsForFiles")
      ]_vars

\* C15 witness: the step has written the directories key and left the files
\* key, which was set, as it was.
C15_Witness ==
    \E p \in Procs :
        /\ pc[p] = "setVersion"
        /\ fromVersion[p] = 1
        /\ store["navigator.useSystemIcons"] = Bool(TRUE)
        /\ store["navigator.useSystemIconsForDirectories"] = Bool(TRUE)
        /\ store["navigator.useSystemIconsForFiles"] = Bool(FALSE)
        /\ writes[p] = {"navigator.useSystemIconsForDirectories"}

\* C16: Step 3 -> 4 writes homeBannerMediaId only when it is absent or blank;
\* a stored non-blank id stays as it is, and the step writes neither
\* homeBannerIndex nor the custom list.
C16_MediaIdFrame ==
    [][ \A p \in Procs :
          MediaIdStepRan(p) =>
            /\ writes'[p] \ writes[p] \subseteq {"homeBannerMediaId"}
            /\ \A k \in StoreKeys \ {"homeBannerMediaId"} : store'[k] = store[k]
            /\ "homeBannerMediaId" \in writes'[p] => AbsentOrBlank(store["homeBannerMediaId"])
            /\ ~AbsentOrBlank(store["homeBannerMediaId"]) =>
                  store'["homeBannerMediaId"] = store["homeBannerMediaId"]
      ]_vars

\* C16 witness: the step has run on a store that held a media id and an index.
C16_Witness ==
    \E p \in Procs :
        /\ pc[p] = "setVersion"
        /\ fromVersion[p] = 3
        /\ store["homeBannerMediaId"] = Str(StoredId)
        /\ store["homeBannerIndex"] = Num(1)
        /\ "homeBannerMediaId" \notin writes[p]

\* The sequence without its element at (0-based) index i
WithoutIndex(xs, i) == [n \in 1..(Len(xs) - 1) |-> IF n <= i THEN xs[n] ELSE xs[n + 1]]

\* The (0-based) index of the first custom entry with this path, or -1
FirstWithPath(s, path) ==
    FirstIndex({i \in 1..Len(customItems(s)) : Field(customItems(s)[i], "path") = Str(path)})

\* The number of custom entries with this path
CountWithPath(s, path) ==
    Cardinality({i \in 1..Len(customItems(s)) : Field(customItems(s)[i], "path") = Str(path)})

\* C17: Removal re-anchoring. With a catalog of size n and the selection at
\* index k, removing the custom entry at index j <= k, with k > 0, leaves the
\* selection index max(0, k - 1) clamped to [0, n - 2], and the stored
\* selection key is the position key of the entry at that index in the
\* updated catalog. (Stated for a path that one custom entry holds.)
C17_RemovalReanchoring ==
    [][ \A path \in RemovePathInputs :
          removeCustomMedia(path) =>
            LET n == Len(allMediaItems(store))
                k == normalizedIndex(store)
                j == FirstWithPath(store, path)
                expected == Min(Max(0, k - 1), n - 2)
            IN  (CountWithPath(store, path) = 1 /\ j <= k /\ k > 0) =>
                  /\ store'["homeBannerIndex"] = Num(expected)
                  /\ store'["homeBannerMediaId"] =
                        getPositionKey(allMediaItems(store')[expected + 1])
      ]_vars

\* C18: removeCustomMedia(path) removes exactly the first custom entry with
\* that path, every other entry staying in place, and the positions map no
\* longer has the removed entry's id as a key.
C18_RemovesFirstMatchOnly ==
    [][ \A path \in RemovePathInputs :
          removeCustomMedia(path) =>
            LET custom == customItems(store)
                j == FirstWithPath(store, path)
                positions == store'["homeBannerPositions"]
            IN  j >= 0 =>
                  /\ customItems(store') = WithoutIndex(custom, j)
                  /\ positions # Undefined =>
                        ~HasKey(positions.e, PropertyKey(Field(custom[j + 1], "id")))
      ]_vars

\* C19: Scenario C. When the only custom entry is the selected one, removing
\* it leaves a catalog of builtins only, the stored selection key is the
\* default builtin file name, and the stored index is inside the catalog.
C19_RemovingTheOnlyCustom ==
    [][ \A path \in RemovePathInputs :
          removeCustomMedia(path) =>
            LET custom == customItems(store)
            IN  ( /\ Len(custom) = 1
                  /\ Field(custom[1], "path") = Str(path)
                  /\ store["homeBannerMediaId"] = Field(custom[1], "id") )
                => /\ customItems(store') = <<>>
                   /\ Len(allMediaItems(store')) = builtinCount
                   /\ store'["homeBannerMediaId"] = Str(DEFAULT_HOME_BANNER_FILE_NAME)
                   /\ TypeOf(store'["homeBannerIndex"]) = "number"
                   /\ store'["homeBannerIndex"].n \in 0..(builtinCount - 1)
      ]_vars

\* C19 witness: the only custom entry, which was the selected one, has been
\* removed.
C19_Witness ==
    /\ lastCall.op = "removeCustomMedia"
    /\ lastCall.count = 1
    /\ lastCall.matches = 1
    /\ lastCall.selected = 0
    /\ customItems(store) = <<>>
    /\ store["homeBannerMediaId"] = Str(DEFAULT_HOME_BANNER_FILE_NAME)
    /\ store["homeBannerIndex"] = Num(1)

\* C20: In every catalog reached by add and remove operations, every entry has
\* a position key and no two entries share one.
C20_PositionKeysUnique ==
    LET items == allMediaItems(store)
    IN  /\ \A i \in 1..Len(items) : TypeOf(getPositionKey(items[i])) = "string"
        /\ \A i, j \in 1..Len(items) :
              i # j => getPositionKey(items[i]) # getPositionKey(items[j])

-----------------------------------------------------------------------------
\* The entry the fallback chain names for a key: an entry with that position
\* key, else the builtin entry of the default file name, else the first
\* entry, else none (Null).
ChainHolds(items, key, defaultName, item) ==
    LET hasKey == \E i \in 1..Len(items) : getPositionKey(items[i]) = key
        hasDefault == \E i \in 1..Len(items) :
                          items[i].kind = "builtin" /\ items[i].data.fileName = defaultName
    IN  /\ hasKey => item # Null /\ getPositionKey(item) = key
        /\ ~hasKey /\ hasDefault =>
              item # Null /\ item.kind = "builtin" /\ item.data.fileName = defaultName
        /\ ~hasKey /\ ~hasDefault /\ Len(items) > 0 => item = items[1]
        /\ Len(items) = 0 => item = Null

-----------------------------------------------------------------------------
\* C22: the ordered catalog is the stored custom entries in list order, then
\* the builtin entries in manifest order: the custom entry at offset i has
\* position index i, and builtin number m has position index customCount + m.
C22_CatalogOrder ==
    LET items == allMediaItems(store)
        custom == currentCustomOf(store)
        c == Len(custom)
        b == Len(homeBannerMedia)
    IN  /\ Len(items) = c + b
        /\ totalCount(store) = c + b
        /\ \A i \in 0..(c - 1) :
              /\ At(items, i).kind = "custom"
              /\ At(items, i).path = custom[i + 1].path
              /\ At(items, i).id = custom[i + 1].id
              /\ getPositionKey(At(items, i)) = custom[i + 1].id
        /\ \A m \in 0..(b - 1) :
              /\ At(items, c + m).kind = "builtin"
              /\ At(items, c + m).data = homeBannerMedia[m + 1]
              /\ getPositionKey(At(items, c + m)) = Str(homeBannerMedia[m + 1].fileName)

\* A URL was added after a file: two custom entries of different paths
\* precede the builtin entries.
C22_Witness ==
    /\ lastCall.op = "addMediaUrl"
    /\ Len(currentCustomOf(store)) = 2
    /\ currentCustomOf(store)[1].path # currentCustomOf(store)[2].path
    /\ currentCustomOf(store)[2].path = Str(MediaUrl)
    /\ Len(homeBannerMedia) = 2

-----------------------------------------------------------------------------
\* The custom list a call leaves is the list it found, entry for entry, then
\* one entry per given path and id, in that order.
AppendedInOrder(old, new, names, ids) ==
    /\ Len(new) = Len(old) + Len(names)
    /\ SubSeq(new, 1, Len(old)) = old
    /\ \A i \in 1..Len(names) :
          /\ new[Len(old) + i].id = Str(ids[i])
          /\ LastSegment(new[Len(old) + i].path.s) = names[i]

\* C23: an add that goes through appends one custom entry per input path, in
\* input order, at the end of the custom list, each with the id generated
\* for it; the entries that were there keep their path, id and place. A file
\* is added even when its path is already in the list; a URL is stored
\* trimmed.
C23_AddAppends ==
    [][ /\ lastCall'.op = "addFilesFromPaths" =>
              \A sourcePaths \in SourcePathsInputs \ {<<>>}, destDir \in DestDirInputs \ {<<>>},
                 result \in CopyResultInputs :
                 \A ids \in [1..Len(sourcePaths) -> generateShortIdOfMedia] :
                     /\ (result.success \/ ~Truthy(result.error))
                     /\ addFilesFromPaths(sourcePaths, destDir, result, ids)
                     => AppendedInOrder(currentCustomOf(store), currentCustomOf(store'),
                                        [i \in 1..Len(sourcePaths) |-> LastSegment(sourcePaths[i])],
                                        ids)
        /\ lastCall'.op = "addMediaUrl" =>
              \A url \in UrlInputs, id \in generateShortIdOfMedia :
                  /\ isUrl(Trim(url))
                  /\ \A i \in 1..Len(currentCustomOf(store)) :
                        currentCustomOf(store)[i].path # Str(Trim(url))
                  /\ addMediaUrl(url, id)
                  => /\ AppendedInOrder(currentCustomOf(store), currentCustomOf(store'),
                                        <<LastSegment(Trim(url))>>, <<id>>)
                     /\ currentCustomOf(store')[Len(currentCustomOf(store'))].path
                            = Str(Trim(url))
      ]_vars

\* A file was added whose path the list already held: the list now has two
\* entries of that path.
C23_Witness ==
    /\ lastCall.op = "addFilesFromPaths"
    /\ lastCall.count = 1
    /\ Len(currentCustomOf(store)) = 2
    /\ currentCustomOf(store)[1].path = currentCustomOf(store)[2].path

-----------------------------------------------------------------------------
\* C24: adding a URL whose trimmed value is the path of an entry of the
\* custom list, or an input that is empty or does not start with http:// or
\* https://, changes nothing: not the custom list, not the selection key,
\* not the selection index.
C24_UrlAddNoOp ==
    [][ lastCall'.op = "addMediaUrl" =>
          \A url \in UrlInputs, id \in generateShortIdOfMedia :
              /\ \/ Trim(url) = <<>>
                 \/ /\ ~StartsWith(Trim(url), <<"h", "t", "t", "p", ":", "/", "/">>)
                    /\ ~StartsWith(Trim(url), <<"h", "t", "t", "p", "s", ":", "/", "/">>)
                 \/ \E i \in 1..Len(currentCustomOf(store)) :
                        currentCustomOf(store)[i].path = Str(Trim(url))
              /\ addMediaUrl(url, id)
              => /\ store'["homeBannerCustomMedia"] = store["homeBannerCustomMedia"]
                 /\ store'["homeBannerMediaId"] = store["homeBannerMediaId"]
                 /\ store'["homeBannerIndex"] = store["homeBannerIndex"]
                 /\ store' = store
      ]_vars

\* The URL of an entry of the list was handed to addMediaUrl again while a
\* builtin entry was selected.
C24_Witness ==
    /\ lastCall.op = "addMediaUrl"
    /\ lastCall.matches = 1
    /\ lastCall.selected > lastCall.count - 1
    /\ \E i \in 1..Len(currentCustomOf(store)) :
          currentCustomOf(store)[i].path = Str(MediaUrl)

-----------------------------------------------------------------------------
\* C25: with an empty catalog (no custom entry, no builtin entry) every
\* lookup and operation completes: the lookup gives no item and index 0, the
\* 3 -> 4 resolution and removeCustomMedia give the default file name as the
\* selection key, and no index outside 0..max(0, n - 1), here 0, is stored.
C25_EmptyCatalog ==
    Len(allMediaItems(store)) = 0 =>
        /\ normalizedIndex(store) = 0
        /\ currentItem(store) = Null
        /\ \A index \in IndexInputs :
              resolvedMediaId(store["homeBannerCustomMedia"], index)
                  = Str(DEFAULT_HOME_BANNER_FILE_NAME)
        /\ lastCall.op = "removeCustomMedia" =>
              /\ store["homeBannerMediaId"] = Str(DEFAULT_HOME_BANNER_FILE_NAME)
              /\ store["homeBannerIndex"] = Num(0)

-----------------------------------------------------------------------------
\* C26: migrate() starts from the integer stored under the reserved version
\* key, and from 0 when the key is absent or holds a value that is not a
\* number: the first step run on such a store is step (0, 1).
C26_CurrentVersion ==
    [][ \A p \in Procs :
          LET stored == store[USER_SETTINGS_SCHEMA_VERSION_KEY]
          IN  /\ migrateUserSettingsStorage(p) =>
                    /\ stored.t = "number" => fromVersion'[p] = stored.n
                    /\ stored.t # "number" =>
                          /\ fromVersion'[p] = 0
                          /\ pc'[p] = "applyStep"
              /\ stored.t # "number" /\ pc[p] = "applyStep" /\ log'[p] # log[p] =>
                    log'[p][2] = <<"begin", 0>>
      ]_vars

\* The version key holds a string and step (0, 1) has returned.
C26_Witness ==
    /\ store[USER_SETTINGS_SCHEMA_VERSION_KEY].t = "string"
    /\ pc["launchA"] = "setVersion"
    /\ fromVersion["launchA"] = 0
    /\ log["launchA"][2] = <<"begin", 0>>

-----------------------------------------------------------------------------
\* The value the keys lead to from the root: Undefined when they lead nowhere
RECURSIVE Follow(_, _)
Follow(value, keys) ==
    IF keys = <<>> THEN value
    ELSE IF isRecord(value) /\ HasKey(value.e, Head(keys))
    THEN Follow(Lookup(value.e, Head(keys)), Tail(keys))
    ELSE Undefined

\* The keys joined with '.'
RECURSIVE Dotted(_)
Dotted(keys) ==
    IF Len(keys) = 1 THEN keys[1]
    ELSE keys[1] \o <<".">> \o Dotted(Tail(keys))

KeySequences == UNION { [1..n -> {KeyA, KeyB, KeyAB}] : n \in 1..3 }

\* C27: the set collected for a schema is exactly the set of the dotted
\* key-paths of its leaves: one path per value that is not a record, the
\* keys from the root joined with '.', and no path for a record on the way.
C27_CollectPaths ==
    walk.phase = "returned" =>
        walk.paths = { Dotted(keys) : keys \in
                         { ks \in KeySequences :
                             /\ Follow(walk.schema, ks) # Undefined
                             /\ ~isRecord(Follow(walk.schema, ks)) } }

\* The walk of a schema of depth three, with an inner record, has returned.
C27_Witness ==
    /\ walk.phase = "returned"
    /\ isRecord(Follow(walk.schema, <<KeyA, KeyA>>))
    /\ Follow(walk.schema, <<KeyAB, KeyB>>) = Null
    /\ Cardinality(walk.paths) = 3

-----------------------------------------------------------------------------
\* Step 2 -> 3 failed in an earlier run after it had stored the converted
\* custom list and before it stored the positions map, and this run has not
\* touched the list: the stored ids are generated ones, the step has never
\* returned, and the previous run failed in it.
RetryAfterListWrite(p) ==
    /\ retryOf[p] = 2
    /\ 2 \notin returned
    /\ "homeBannerCustomMedia" \notin writes[p]
    /\ CustomEntries(store) # <<>>
    /\ \A i \in 1..Len(CustomEntries(store)) :
          /\ CustomEntries(store)[i].t = "object"
          /\ Field(CustomEntries(store)[i], "id") \in {Str(id) : id \in generateShortId}

\* C28: when step 2 -> 3 is run again after a crash between its two writes,
\* the positions map it stores is the one an uninterrupted run computes for
\* the stored ids: the legacy index i < c is keyed by the id stored for the
\* i-th custom entry, and the custom list is not written again.
C28_RetryKeepsIds ==
    [][ \A p \in Procs :
          PositionsPartRan(p) /\ pc'[p] = "setVersion" /\ RetryAfterListWrite(p) =>
            LET old == store["homeBannerPositions"]
                new == store'["homeBannerPositions"]
                custom == CustomEntries(store)
            IN  /\ loc[p].migratedCustom = custom
                /\ store'["homeBannerCustomMedia"] = store["homeBannerCustomMedia"]
                /\ "homeBannerCustomMedia" \notin writes'[p]
                /\ hasNumericKeys(old) =>
                      /\ new = Obj(migratePositions(ObjectEntries(old.e), custom, <<>>).e)
                      /\ \A key \in KeysOf(old.e) :
                            /\ RegexDigits(key)
                            /\ LeadingDigitsValue(key, 0) < Len(custom)
                            /\ Truthy(Lookup(old.e, key))
                            /\ TypeOf(Lookup(old.e, key)) = "object"
                            => HasKey(new.e, custom[LeadingDigitsValue(key, 0) + 1].id.s)
      ]_vars

\* The run after the crash has stored a positions map keyed by the id the
\* interrupted run had generated for the only custom entry.
C28_Witness ==
    /\ pc["launchA"] = "setVersion"
    /\ fromVersion["launchA"] = 2
    /\ retryOf["launchA"] = 2
    /\ writes["launchA"] = {"homeBannerPositions"}
    /\ Len(CustomEntries(store)) = 1
    /\ Field(CustomEntries(store)[1], "id") = Str(<<"a", "3", "f", "0", "9", "c", "1", "e">>)
    /\ IsMap(store["homeBannerPositions"])
    /\ HasKey(store["homeBannerPositions"].e, <<"a", "3", "f", "0", "9", "c", "1", "e">>)

-----------------------------------------------------------------------------
\* Every step below the version has returned
StepsBelowReturned(version, steps) == \A u \in 0..(version - 1) : u \in steps

\* C29, as stated: when two migrate() invocations interleave on one store,
\* the stored version never decreases and never exceeds the highest version
\* whose steps have completed.
C29_InterleavedMonotonic ==
    [][ /\ currentVersion(store', USER_SETTINGS_SCHEMA_VERSION_KEY) >= StoredVersion
        /\ StepsBelowReturned(currentVersion(store', USER_SETTINGS_SCHEMA_VERSION_KEY),
                              returned')
      ]_vars

\* C29, amended: when two migrate() invocations interleave on one store, the
\* stored version never exceeds the highest version whose steps have
\* returned, and every change of it is the write of v + 1 by an invocation
\* whose step (v, v + 1) has returned; it decreases only when that invocation
\* is behind the version the other one has written.
C29_InterleavedVersion ==
    [][ LET after == currentVersion(store', USER_SETTINGS_SCHEMA_VERSION_KEY)
        IN  /\ StepsBelowReturned(after, returned')
            /\ after # StoredVersion =>
                  \E p \in Procs :
                      /\ pc[p] = "setVersion"
                      /\ after = fromVersion[p] + 1
                      /\ fromVersion[p] \in returned
            /\ after < StoredVersion =>
                  \E p \in Procs :
                      /\ pc[p] = "setVersion"
                      /\ pc'[p] # "setVersion"
                      /\ fromVersion[p] + 1 < StoredVersion
                      /\ StoredVersion \in bumped
      ]_vars

\* A version that was written is above the stored one: an invocation that
\* was behind has written its own version over it.
C29_Witness ==
    /\ \E n \in bumped : n > StoredVersion
    /\ VersionInRange(store)
    /\ \E p \in Procs : pc[p] = "applyStep" /\ fromVersion[p] = StoredVersion

-----------------------------------------------------------------------------
\* C30: removeCustomMedia of a path whose first entry is not the selected
\* entry leaves the selection where it was: the selection key stored after
\* the removal is the position key of the entry that was selected before,
\* whatever the catalog (lists with several entries of one path included) and
\* whatever the selected position.
C30_SelectionSurvivesRemoval ==
    [][ /\ lastCall'.op = "removeCustomMedia"
        /\ lastCall'.first >= 0
        /\ lastCall'.first # lastCall'.selected
        /\ \E path \in RemovePathInputs : removeCustomMedia(path)
        => store'["homeBannerMediaId"] = getPositionKey(currentItem(store))
      ]_vars

-----------------------------------------------------------------------------
\* The stored selection index is the position of an entry of the catalog and
\* the stored selection key is that entry's position key.
SelectionAgrees(s) ==
    LET items == allMediaItems(s)
        index == s["homeBannerIndex"]
    IN  /\ TypeOf(index) = "number"
        /\ index.n \in 0..(Len(items) - 1)
        /\ s["homeBannerMediaId"] = getPositionKey(items[index.n + 1])

CatalogOperations == {"selectMedia", "addFilesFromPaths", "addMediaUrl", "removeCustomMedia"}

-----------------------------------------------------------------------------
\* C32: the selection index removeCustomMedia writes to homeBannerIndex is a
\* number that is never negative, whatever the size of the catalog, the
\* catalog that is empty after the removal included.
C32_RemoveIndexNotNegative ==
    lastCall.op = "removeCustomMedia" =>
        /\ TypeOf(store["homeBannerIndex"]) = "number"
        /\ store["homeBannerIndex"].n >= 0

-----------------------------------------------------------------------------
\* C33: after removeCustomMedia(path), the positions side-data has no key
\* that is the id of a custom entry the call removed from the list, also
\* when several entries of the list had that path.
C33_NoPositionOfRemoved ==
    [][ lastCall'.op = "removeCustomMedia" =>
          \A path \in RemovePathInputs :
              removeCustomMedia(path) =>
                LET custom == currentCustomOf(store)
                    positions == store'["homeBannerPositions"]
                IN  \A i \in 1..Len(custom) :
                        ( /\ Field(custom[i], "path") = Str(path)
                          /\ positions \notin {Undefined, Null} )
                        => ~HasKey(positions.e, PropertyKey(Field(custom[i], "id")))
      ]_vars

-----------------------------------------------------------------------------
\* C34: an add that succeeds on a list of c custom entries (addFilesFromPaths
\* of one or more paths whose copy succeeded, addMediaUrl of a URL the list
\* does not hold) stores the id of the first entry it added as the selection
\* key and c as the selection index; an addFilesFromPaths whose copy reports
\* failure leaves the custom list, the selection key and the selection index
\* as they were.
C34_AddSelectsFirstNew ==
    [][ /\ lastCall'.op = "addFilesFromPaths" =>
              \A sourcePaths \in SourcePathsInputs \ {<<>>}, destDir \in DestDirInputs \ {<<>>},
                 result \in CopyResultInputs :
                 \A ids \in [1..Len(sourcePaths) -> generateShortIdOfMedia] :
                     addFilesFromPaths(sourcePaths, destDir, result, ids)
                     => IF result.success
                        THEN /\ store'["homeBannerMediaId"] = Str(ids[1])
                             /\ store'["homeBannerIndex"] = Num(Len(currentCustomOf(store)))
                        ELSE /\ store'["homeBannerCustomMedia"] = store["homeBannerCustomMedia"]
                             /\ store'["homeBannerMediaId"] = store["homeBannerMediaId"]
                             /\ store'["homeBannerIndex"] = store["homeBannerIndex"]
        /\ lastCall'.op = "addMediaUrl" =>
              \A url \in UrlInputs, id \in generateShortIdOfMedia :
                  /\ isUrl(Trim(url))
                  /\ \A i \in 1..Len(currentCustomOf(store)) :
                        currentCustomOf(store)[i].path # Str(Trim(url))
                  /\ addMediaUrl(url, id)
                  => /\ store'["homeBannerMediaId"] = Str(id)
                     /\ store'["homeBannerIndex"] = Num(Len(currentCustomOf(store)))
      ]_vars

-----------------------------------------------------------------------------
\* C35: between two calls of cleanup(), the calls of init(), those that
\* overlap an init() that is still awaiting included, run
\* registerAllShortcuts at most once.
C35_RegisterAllOncePerCleanup == shortcutHistory.sinceCleanupCall <= 1

-----------------------------------------------------------------------------
\* The key combinations the operating system holds for a shortcut id
RegisteredFor(os, globalShortcutId) ==
    {r.shortcut : r \in {x \in os : x.id = globalShortcutId}}

\* C36: when setShortcut(id, keys) or resetShortcut(id) returns, the
\* operating system holds at most one key combination for id, and it is the
\* one registeredShortcuts records for id, whether the unregister and
\* register calls of the operation succeeded or failed.
C36_OneRegistrationPerId ==
    [][ \A c \in Callers :
          ( /\ calls[c].op \in {"setShortcut", "resetShortcut"}
            /\ syncTrayShortcutHint(c) )
          => LET combinations == RegisteredFor(osShortcuts', calls[c].target)
             IN  /\ Cardinality(combinations) <= 1
                 /\ \A s \in combinations :
                       registeredShortcuts'[calls[c].target] = Str(s)
      ]_vars
====
